---------------------------- MODULE Spec2Model ----------------------------
(***************************************************************************)
(* A model of django-sugar-crm: the connection (sugarcrm.py), the error    *)
(* classifier (sugarerror.py), the entity proxy (sugarentry.py) and the    *)
(* lazy query (sugarquerylist.py).                                         *)
(*                                                                         *)
(* The module holds several specifications over one set of variables:     *)
(*   SpecCall   Sugarcrm._method_call against a nondeterministic server    *)
(*   SpecEntry  one SugarEntry and the remote records of its module        *)
(*   SpecQuery  the QueryList a caller holds, over fixed remote records    *)
(*   SpecBuild  QueryList._build_query on bounded keyword arguments        *)
(*   SpecNarrow chains of filter, exclude, all, order_by and only          *)
(*   SpecWindow set_limits and count() on one QueryList                    *)
(*   SpecHash   hash() of proxies of several modules and ids               *)
(* Each specification changes only its own variables.                      *)
(***************************************************************************)
EXTENDS Integers, Sequences, FiniteSets, TLC

(***************************************************************************)
(* Bounds of the model.                                                    *)
(***************************************************************************)
MaxTokens == 3      \* session tokens the server issues in one behaviour
MaxCalls == 2       \* invocations of _method_call per thread

(***************************************************************************)
(* sugarerror.py: the numbers the classifier tests.                        *)
(***************************************************************************)
InvalidSessionNumber == 11
InvalidLoginNumber == 10
MissingModuleNumber == 20
NullResponseNumber == 0
InvalidRequestNumber == 1001

\* Fault numbers the modelled server may answer: the five recognised ones,
\* 1 (which the classifier does not recognise) and 40 (any other number).
Codes == {0, 1, 10, 11, 20, 40, 1001}

NoNumber == 0 - 1

VARIABLES
    \* ---- connection (sugarcrm.py) ----
    session,    \* Sugarcrm._session: the stored session token
    valid,      \* server: the tokens it accepts
    issued,     \* server: how many tokens it has issued
    pc,         \* per thread: position inside _method_call
    call,       \* per thread: [method, args] of the running invocation
    sent,       \* per thread: the requests of the method sent by this invocation
    logins,     \* per thread: login requests sent by this invocation
    fault1,     \* per thread: number of the SugarError the first request raised
    cls,        \* per thread: the is_* properties true of that SugarError
    tok,        \* per thread: what login() returned (0: nothing yet)
    body1,      \* per thread: the body the server answered the first request with
    resp2,      \* per thread: what the repeated request produced
    outcome,    \* per thread: how the invocation ended
    ncalls      \* per thread: invocations started

callVars == <<session, valid, issued, pc, call, sent, logins, fault1, cls,
              tok, body1, resp2, outcome, ncalls>>

VARIABLES
    \* ---- one SugarEntry (sugarentry.py) and the remote records of its module ----
    eState,     \* "none": not constructed; "ok": constructed; "nomodule": __init__
                \* returned at `if result is None`, before any attribute was set
    fields,     \* SugarEntry._fields: field name -> value
    dirty,      \* SugarEntry._dirty_fields: a list of field names
    attrs,      \* names in the instance __dict__ set through __setattr__/__setitem__
    idTouched,  \* history: 'id' was given at construction, assigned, or set by save()
    last        \* the last operation on the entry, what it did and how it ended

entryVars == <<eState, fields, dirty, attrs, idTouched, last>>

VARIABLES
    qs,         \* the QueryList the caller holds, connection[module].objects first
    narrowed,   \* the filter and exclude calls that led to it
    qstats,     \* of this instance: the evaluations made of it, those that
                \* returned, the get_entry_list requests they sent, and whether
                \* the first of them was a len(), iteration or test that returned
    qlast       \* the last QueryList operation: what it was given, what it
                \* raised or returned, the requests it sent

queryVars == <<qs, narrowed, qstats, qlast>>

VARIABLES
    built,      \* _build_query applied once: the keyword arguments it was given,
                \* what it and filter, exclude and get did with them
    nq,         \* the QueryList at the end of a chain of narrowing calls
    nsteps,     \* the calls of that chain, in order
    nlast,      \* the last narrowing call: its receiver before and after it,
                \* what it raised, whether the instance it returned has a cache
    wq,         \* a QueryList on which set_limits and count() are called
    wlast,      \* the last of these calls: its arguments, the instance before
                \* it, what it raised or returned, the requests it sent
    wstats,     \* the calls made on wq, the count() calls among them, the
                \* get_entries_count requests sent, the count() calls that returned
    hashes,     \* SugarEntry._hashes: key -> number
    hcount,     \* the last number the counter of _hashes gave
    hseen,      \* history: the (module name, id) pairs hashed, each with the
                \* numbers hash() returned for it
    hlast,      \* the last hash() call: the proxy's module name and id, what
                \* it raised or returned
    sch         \* a connection's rst_modules and modules, the get_module_fields
                \* requests sent through it for each module name, the
                \* constructions, lookups and evaluations made, the last of them

pureVars == <<built, nq, nsteps, nlast, wq, wlast, wstats, hashes, hcount, hseen, hlast,
             sch>>

vars == <<callVars, entryVars, queryVars, pureVars>>

AllThreads == {1, 2}
Methods == {"get_entry_list", "set_entry"}
ArgLists == {<<"Tasks">>, <<"Tasks", "x">>}
Values == {"r1", "r2"}

(***************************************************************************)
(* Response bodies.  kind "empty": no bytes; "garbage": not JSON; "json":  *)
(* a JSON object, whose name key is absent ("absent"), null ("null"), the  *)
(* text 'Module Does Not Exist' or another text, and whose description is  *)
(* null or a text.  value is the payload of a method's result and id the   *)
(* 'id' key of a login result (0: the object has no 'id' key).             *)
(***************************************************************************)
Body(k, nm, d, n, v, i) ==
    [kind |-> k, name |-> nm, description |-> d, number |-> n, value |-> v, id |-> i]

EmptyBody == [kind |-> "empty"]
GarbageBody == [kind |-> "garbage"]
FaultBody(n) == Body("json", "text", "text", n, "none", 0)
ResultBody(v) == Body("json", "absent", "null", NoNumber, v, 0)
LoginBody(i) == Body("json", "absent", "null", NoNumber, "none", i)
\* Python's None, as _method_call returns it.
NoneBody == [kind |-> "none"]

\* Odd JSON objects: error-shaped only in part.
OddBodies ==
    { Body("json", nm, d, n, v, 0) :
        nm \in {"null", "Module Does Not Exist", "text"},
        d \in {"null", "text"}, n \in {20, 40}, v \in {"r1"} }

(***************************************************************************)
(* Outcomes of a Python call: a return value or a raised exception.        *)
(***************************************************************************)
Ret(b) == [kind |-> "return", value |-> b]
Raise(e, n) == [kind |-> "raise", exc |-> e, number |-> n]
NoOutcome == [kind |-> "none"]

\* sugarerror.py is_error
is_error(data) ==
    IF data.name = "absent" THEN FALSE                   \* KeyError
    ELSE IF data.name = "Module Does Not Exist" THEN TRUE
    ELSE data.name # "null" /\ data.description # "null"

\* sugarcrm.py _sendRequest, from the bytes read to the end
SendRequest(body) ==
    IF body.kind = "empty" THEN Raise("SugarError", NullResponseNumber)
    ELSE IF body.kind = "garbage" THEN Raise("Exception", NoNumber)
    ELSE IF is_error(body) THEN Raise("SugarError", body.number)
    ELSE Ret(body)

\* sugarerror.py SugarError properties
\* (mutant: the session test reads the number 1)
is_invalid_session_1(number) == number = 1

is_invalid_session(number) == number = InvalidSessionNumber
is_invalid_login(number) == number = InvalidLoginNumber
is_missing_module(number) == number = MissingModuleNumber
is_null_response(number) == number = NullResponseNumber
is_invalid_request(number) == number = InvalidRequestNumber

\* The classes a SugarError with this number belongs to.
Classes(number) ==
    (IF is_invalid_session(number) THEN {"invalid_session"} ELSE {}) \cup
    (IF is_invalid_login(number) THEN {"invalid_login"} ELSE {}) \cup
    (IF is_missing_module(number) THEN {"missing_module"} ELSE {}) \cup
    (IF is_null_response(number) THEN {"null_response"} ELSE {}) \cup
    (IF is_invalid_request(number) THEN {"invalid_request"} ELSE {})

(***************************************************************************)
(* The server, as far as the connection sees it: a method request with a   *)
(* token it does not accept is answered by the invalid-session fault, any  *)
(* other request by any body but that fault.                               *)
(***************************************************************************)
MethodBodies(token) ==
    IF token \notin valid
    THEN {FaultBody(11)}
    ELSE {EmptyBody, GarbageBody} \cup {FaultBody(n) : n \in Codes \ {11}}
         \cup {ResultBody(v) : v \in Values} \cup OddBodies

\* login answers: a fresh token, an object without 'id', a fault, no bytes
LoginBodies ==
    {LoginBody(issued + 1), LoginBody(0), FaultBody(10), EmptyBody}

\* sugarcrm.py: [self._session] + list(args)
RequestData(sess, args) == <<sess>> \o args

Request(method, sess, args) == [method |-> method, data |-> RequestData(sess, args)]

(***************************************************************************)
(* Sugarcrm._method_call, one thread t.                                    *)
(***************************************************************************)
\* (mutant: the null-response branch is missing)
Handling_NoNullBranch(number) ==
    IF is_invalid_session(number) THEN "relogin"
    ELSE IF is_missing_module(number) THEN "return_none"
    ELSE IF is_invalid_request(number) THEN "print"
    ELSE "unhandled"

\* The branch _method_call takes on a SugarError of the first request.
Handling(number) ==
    IF is_invalid_session(number) THEN "relogin"
    ELSE IF is_missing_module(number) THEN "return_none"
    ELSE IF is_null_response(number) THEN "return_none"
    ELSE IF is_invalid_request(number) THEN "print"
    ELSE "unhandled"

\* (mutant: a fault no branch names is swallowed like a null response)
HandlingOutcome_Swallow(number) ==
    CASE Handling(number) = "print" -> Raise("UnboundLocalError", NoNumber)
      [] OTHER -> Ret(NoneBody)

\* How the invocation ends on that branch, when it ends there.
\* "print" falls through to `return result`, and result was never bound.
HandlingOutcome(number) ==
    CASE Handling(number) = "return_none" -> Ret(NoneBody)
      [] Handling(number) = "print" -> Raise("UnboundLocalError", NoNumber)
      [] OTHER -> Raise("SugarUnhandledException", number)

Active == {u \in AllThreads : pc[u] # "idle"}

Call(t, m, a) ==
    /\ UNCHANGED <<entryVars, queryVars, pureVars>>
    /\ pc[t] = "idle"
    /\ ncalls[t] < MaxCalls
    /\ issued + Cardinality(Active) < MaxTokens
    /\ pc' = [pc EXCEPT ![t] = "req1"]
    /\ call' = [call EXCEPT ![t] = [method |-> m, args |-> a]]
    /\ sent' = [sent EXCEPT ![t] = <<>>]
    /\ logins' = [logins EXCEPT ![t] = 0]
    /\ fault1' = [fault1 EXCEPT ![t] = NoNumber]
    /\ cls' = [cls EXCEPT ![t] = {}]
    /\ tok' = [tok EXCEPT ![t] = 0]
    /\ body1' = [body1 EXCEPT ![t] = NoneBody]
    /\ resp2' = [resp2 EXCEPT ![t] = NoOutcome]
    /\ outcome' = [outcome EXCEPT ![t] = NoOutcome]
    /\ ncalls' = [ncalls EXCEPT ![t] = @ + 1]
    /\ UNCHANGED <<session, valid, issued>>

\* try: result = self._sendRequest(...) except SugarError as error: ...
Request1(t) ==
    /\ UNCHANGED <<entryVars, queryVars, pureVars>>
    /\ pc[t] = "req1"
    /\ \E body \in MethodBodies(session) :
         LET r == SendRequest(body) IN
         /\ sent' = [sent EXCEPT ![t] = Append(@, Request(call[t].method, session, call[t].args))]
         /\ body1' = [body1 EXCEPT ![t] = body]
         /\ IF r.kind = "return"
            THEN /\ outcome' = [outcome EXCEPT ![t] = r]
                 /\ pc' = [pc EXCEPT ![t] = "done"]
                 /\ UNCHANGED <<fault1, cls>>
            ELSE IF r.exc = "SugarError"
            THEN /\ fault1' = [fault1 EXCEPT ![t] = r.number]
                 /\ cls' = [cls EXCEPT ![t] = Classes(r.number)]
                 /\ IF Handling(r.number) = "relogin"
                    THEN /\ pc' = [pc EXCEPT ![t] = "login"]
                         /\ UNCHANGED outcome
                    ELSE /\ pc' = [pc EXCEPT ![t] = "done"]
                         /\ outcome' = [outcome EXCEPT ![t] = HandlingOutcome(r.number)]
            ELSE /\ outcome' = [outcome EXCEPT ![t] = r]
                 /\ pc' = [pc EXCEPT ![t] = "done"]
                 /\ UNCHANGED <<fault1, cls>>
    /\ UNCHANGED <<session, valid, issued, call, logins, tok, resp2, ncalls>>

\* login(): x = self._sendRequest('login', args); return x['id']
LoginRequest(t) ==
    /\ UNCHANGED <<entryVars, queryVars, pureVars>>
    /\ pc[t] = "login"
    /\ logins' = [logins EXCEPT ![t] = @ + 1]
    /\ \E body \in LoginBodies :
         LET x == SendRequest(body) IN
         IF x.kind = "raise"
         THEN /\ outcome' = [outcome EXCEPT ![t] = x]
              /\ pc' = [pc EXCEPT ![t] = "done"]
              /\ UNCHANGED <<tok, issued, valid>>
         ELSE IF x.value.id = 0
         THEN /\ outcome' = [outcome EXCEPT ![t] = Raise("SugarUnhandledException", NoNumber)]
              /\ pc' = [pc EXCEPT ![t] = "done"]
              /\ UNCHANGED <<tok, issued, valid>>
         ELSE /\ tok' = [tok EXCEPT ![t] = x.value.id]
              /\ issued' = issued + 1
              /\ valid' = valid \cup {x.value.id}
              /\ pc' = [pc EXCEPT ![t] = "assign"]
              /\ UNCHANGED outcome
    /\ UNCHANGED <<session, call, sent, fault1, cls, body1, resp2, ncalls>>

\* (mutant: a newer token another thread stored is kept)
AssignSession_KeepNewer(t) ==
    /\ UNCHANGED <<entryVars, queryVars, pureVars>>
    /\ pc[t] = "assign"
    /\ session' = IF session > tok[t] THEN session ELSE tok[t]
    /\ pc' = [pc EXCEPT ![t] = "req2"]
    /\ UNCHANGED <<valid, issued, call, sent, logins, fault1, cls, tok, body1, resp2, outcome, ncalls>>

\* (mutant: the token login() returned is dropped)
AssignSession_Stale(t) ==
    /\ UNCHANGED <<entryVars, queryVars, pureVars>>
    /\ pc[t] = "assign"
    /\ pc' = [pc EXCEPT ![t] = "req2"]
    /\ UNCHANGED <<session, valid, issued, call, sent, logins, fault1, cls, tok, body1, resp2, outcome, ncalls>>

\* self._session = <what login() returned>
AssignSession(t) ==
    /\ UNCHANGED <<entryVars, queryVars, pureVars>>
    /\ pc[t] = "assign"
    /\ session' = tok[t]
    /\ pc' = [pc EXCEPT ![t] = "req2"]
    /\ UNCHANGED <<valid, issued, call, sent, logins, fault1, cls, tok, body1, resp2, outcome, ncalls>>

\* (mutant: a failure of the repeated request is swallowed)
Request2_Swallow(t) ==
    /\ UNCHANGED <<entryVars, queryVars, pureVars>>
    /\ pc[t] = "req2"
    /\ \E body \in MethodBodies(session) :
         LET r == SendRequest(body) IN
         /\ sent' = [sent EXCEPT ![t] = Append(@, Request(call[t].method, session, call[t].args))]
         /\ resp2' = [resp2 EXCEPT ![t] = r]
         /\ outcome' = [outcome EXCEPT ![t] = IF r.kind = "raise" THEN Ret(NoneBody) ELSE r]
    /\ pc' = [pc EXCEPT ![t] = "done"]
    /\ UNCHANGED <<session, valid, issued, call, logins, fault1, cls, tok, body1, ncalls>>

\* result = self._sendRequest(...) inside the handler: nothing catches here
Request2(t) ==
    /\ UNCHANGED <<entryVars, queryVars, pureVars>>
    /\ pc[t] = "req2"
    /\ \E body \in MethodBodies(session) :
         LET r == SendRequest(body) IN
         /\ sent' = [sent EXCEPT ![t] = Append(@, Request(call[t].method, session, call[t].args))]
         /\ resp2' = [resp2 EXCEPT ![t] = r]
         /\ outcome' = [outcome EXCEPT ![t] = r]
    /\ pc' = [pc EXCEPT ![t] = "done"]
    /\ UNCHANGED <<session, valid, issued, call, logins, fault1, cls, tok, body1, ncalls>>

\* the caller has the result (or the exception)
Finish(t) ==
    /\ UNCHANGED <<entryVars, queryVars, pureVars>>
    /\ pc[t] = "done"
    /\ pc' = [pc EXCEPT ![t] = "idle"]
    /\ UNCHANGED <<session, valid, issued, call, sent, logins, fault1, cls, tok,
                   body1, resp2, outcome, ncalls>>

\* the server drops a session
Expire ==
    /\ UNCHANGED <<entryVars, queryVars, pureVars>>
    /\ \E k \in valid : valid' = valid \ {k}
    /\ UNCHANGED <<session, issued, pc, call, sent, logins, fault1, cls, tok,
                   body1, resp2, outcome, ncalls>>

\* After Sugarcrm.__init__: one login has succeeded.
InitCall ==
    /\ session = 1
    /\ valid = {1}
    /\ issued = 1
    /\ pc = [t \in AllThreads |-> "idle"]
    /\ call = [t \in AllThreads |-> [method |-> "get_entry_list", args |-> <<"Tasks">>]]
    /\ sent = [t \in AllThreads |-> <<>>]
    /\ logins = [t \in AllThreads |-> 0]
    /\ fault1 = [t \in AllThreads |-> NoNumber]
    /\ cls = [t \in AllThreads |-> {}]
    /\ tok = [t \in AllThreads |-> 0]
    /\ body1 = [t \in AllThreads |-> NoneBody]
    /\ resp2 = [t \in AllThreads |-> NoOutcome]
    /\ outcome = [t \in AllThreads |-> NoOutcome]
    /\ ncalls = [t \in AllThreads |-> 0]

ThreadStep(t) ==
    \/ \E m \in Methods, a \in ArgLists : Call(t, m, a)
    \/ Request1(t)
    \/ LoginRequest(t)
    \/ AssignSession(t)
    \/ Request2(t)
    \/ Finish(t)

\* One thread uses the connection.
NextCall == ThreadStep(1) \/ Expire


(***************************************************************************)
(* SugarEntry.  The remote is an oracle: what it answers to a request is   *)
(* chosen by the environment, within what a SugarCRM server can answer (a  *)
(* predicate on one id selects at most one record, and none for the empty  *)
(* id; set_entry answers an update with the id it was given and a create   *)
(* with a new, non-empty id).                                              *)
(***************************************************************************)
MaxDirty == 4       \* save() is not started on a dirty list this long

\* result['module_fields'] of the module, and a name that is not a field
AvailableFields == {"id", "name", "deleted"}
UnknownField == "bogus"
FieldNames == AvailableFields \cup {UnknownField}

\* What a caller assigns to a field.
AssignValues(f) ==
    CASE f = "id" -> {"r1"}
      [] f = "name" -> {"a"}
      [] f = "deleted" -> {"1"}
      [] OTHER -> {"a"}

\* The id the remote gives the record it creates.
CreatedId == "r2"

Range(seq) == {seq[i] : i \in 1..Len(seq)}
Count(seq, x) == Cardinality({i \in 1..Len(seq) : seq[i] = x})
Put(f, k, v) == [x \in DOMAIN f \cup {k} |-> IF x = k THEN v ELSE f[x]]
NoFields == [x \in {} |-> ""]

\* The entry as one value, for the operators below.
Entry == [st |-> eState, fields |-> fields, dirty |-> dirty, attrs |-> attrs]

\* A remote call as the entry makes it: the method, the id its predicate
\* names, the fields it selects, the name-value list it submits.
RemoteCall(m, id, sel, nvl) == [m |-> m, id |-> id, sel |-> sel, nvl |-> nvl]

\* What a handler did: the entry after it, the exception it raised ("none":
\* it returned), the value(s) it returned and the remote calls it made.
Done(e, exc, ret, calls) == [e |-> e, exc |-> exc, ret |-> ret, calls |-> calls]

\* __setattr__/__setitem__ on a name of the schema
SetKnown(e, k, v) ==
    [e EXCEPT !.fields = Put(@, k, v),
              !.attrs = @ \cup {k},
              !.dirty = IF k \in Range(@) THEN @ ELSE Append(@, k)]

\* SugarEntry.__setattr__: never raises
setattr(e, k, v) ==
    IF e.st = "ok" /\ k \in AvailableFields
    THEN SetKnown(e, k, v)
    ELSE [e EXCEPT !.attrs = @ \cup {k}]

\* (mutant: __setitem__ without the schema test)
setitem_NoCheck(e, k, v) == [e |-> setattr(e, k, v), exc |-> "none"]

\* SugarEntry.__setitem__: the entry after it and the exception
setitem(e, k, v) ==
    IF e.st # "ok" THEN [e |-> e, exc |-> "AttributeError"]
    ELSE IF k \in AvailableFields THEN [e |-> SetKnown(e, k, v), exc |-> "none"]
    ELSE [e |-> e, exc |-> "AttributeError"]

\* setattr for each item of a mapping, in some order of its keys
RECURSIVE SetAll(_, _, _)
SetAll(e, m, keys) ==
    IF keys = {} THEN e
    ELSE LET k == CHOOSE x \in keys : TRUE
         IN SetAll(setattr(e, k, m[k]), m, keys \ {k})

HtmlUnescape(v) == IF v = "&amp;" THEN "&" ELSE v

\* The records the remote may hold under an id: none under the empty id.
RemoteRecords(id) ==
    IF id = "" THEN {}
    ELSE {[f \in AvailableFields |->
              IF f = "id" THEN id ELSE IF f = "deleted" THEN "0" ELSE n] :
          n \in {"", "a"}}

\* What get_entry_list may do on a predicate naming one id: raise, return
\* None, or return an entry_list of no record or one record.
ListAnswers(id) ==
    {[kind |-> "raise", list |-> <<>>], [kind |-> "none", list |-> <<>>],
     [kind |-> "list", list |-> <<>>]}
        \cup {[kind |-> "list", list |-> <<rec>>] : rec \in RemoteRecords(id)}

(***************************************************************************)
(* SugarEntry._retrieve(fieldlist) on an entry with a schema.  early is    *)
(* the set of known names `for field in fieldlist` reaches before an       *)
(* unknown one (the order of a Python set is arbitrary).                   *)
(***************************************************************************)
\* _retrieve as with force=True: the known fields are asked for again.
retrieve_Force(e, names, answer, early) ==
    LET fl == names
        id == e.fields["id"]
        c == <<RemoteCall("get_entry_list", id, fl, NoFields)>>
        nvl == fl \cap AvailableFields
        blank(set) == SetAll(e, [f \in set |-> ""], set)
    IN  IF fl = {} THEN Done(e, "none", <<>>, <<>>)
        ELSE IF answer.kind = "raise" THEN Done(e, "SugarUnhandledException", <<>>, c)
        ELSE IF answer.kind = "none" THEN Done(e, "TypeError", <<>>, c)
        ELSE IF answer.list = <<>> \/ nvl = {}
        THEN IF fl \subseteq AvailableFields
             THEN Done(blank(fl), "none", <<>>, c)
             ELSE Done(blank(early \cap nvl), "AttributeError", <<>>, c)
        ELSE LET rec == answer.list[1]
                 got == [f \in nvl |-> IF rec[f] # "" THEN HtmlUnescape(rec[f]) ELSE ""]
             IN Done(SetAll(e, got, nvl), "none", <<>>, c)

retrieve(e, names, answer, early) ==
    LET fl == names \ DOMAIN e.fields
        id == e.fields["id"]
        c == <<RemoteCall("get_entry_list", id, fl, NoFields)>>
        nvl == fl \cap AvailableFields
        blank(set) == SetAll(e, [f \in set |-> ""], set)
    IN  IF fl = {} THEN Done(e, "none", <<>>, <<>>)
        ELSE IF answer.kind = "raise" THEN Done(e, "SugarUnhandledException", <<>>, c)
        ELSE IF answer.kind = "none" THEN Done(e, "TypeError", <<>>, c)
        ELSE IF answer.list = <<>> \/ nvl = {}
        THEN IF fl \subseteq AvailableFields
             THEN Done(blank(fl), "none", <<>>, c)
             ELSE Done(blank(early \cap nvl), "AttributeError", <<>>, c)
        ELSE LET rec == answer.list[1]
                 got == [f \in nvl |-> IF rec[f] # "" THEN HtmlUnescape(rec[f]) ELSE ""]
             IN Done(SetAll(e, got, nvl), "none", <<>>, c)

\* SugarEntry.__getitem__(field_name), field_name a string
getitem(e, name, answer) ==
    IF e.st # "ok" THEN Done(e, "AttributeError", <<>>, <<>>)
    ELSE IF name \notin AvailableFields THEN Done(e, "AttributeError", <<>>, <<>>)
    ELSE IF name \in DOMAIN e.fields
    THEN Done(e, "none", <<e.fields[name]>>, <<>>)
    ELSE LET r == retrieve(e, {name}, answer, {})
         IN IF r.exc # "none" THEN r
            ELSE Done(r.e, "none", <<r.e.fields[name]>>, r.calls)

\* SugarEntry.__getitem__(field_name), field_name a tuple
gettuple(e, names, answer, early) ==
    IF e.st # "ok" THEN Done(e, "AttributeError", <<>>, <<>>)
    ELSE LET r == retrieve(e, Range(names), answer, early)
         IN IF r.exc # "none" THEN r
            ELSE IF \E i \in 1..Len(names) : names[i] \notin AvailableFields
            THEN Done(r.e, "AttributeError", <<>>, r.calls)
            ELSE Done(r.e, "none",
                      [i \in 1..Len(names) |-> r.e.fields[names[i]]], r.calls)

(***************************************************************************)
(* SugarEntry.save().  setAns is what set_entry does: "ok" (a result with  *)
(* an id), "noid" (a result without 'id'), "none" (None: a missing-module  *)
(* or null-response fault) or "raise"; fetch is what the get_entry_list of *)
(* the re-fetch does.                                                      *)
(***************************************************************************)
\* self._dirty_fields = []
ClearDirty(e) == [e EXCEPT !.dirty = <<>>]

\* (mutant: the re-fetch copies only the id)
CopyFields_IdOnly(e, obj) == setattr(e, "id", obj["id"])

\* for field, value in obj.fields().items(): setattr(self, field, value)
CopyFields(e, obj) == SetAll(e, obj, DOMAIN obj)

save(e, setAns, fetch) ==
    IF e.st # "ok" THEN Done(e, "AttributeError", <<>>, <<>>)
    ELSE
    LET isNew == e.fields["id"] = ""
        e1 == IF isNew THEN e ELSE [e EXCEPT !.dirty = Append(@, "id")]
        nvl == [f \in Range(e1.dirty) |-> e1.fields[f]]
        c1 == RemoteCall("set_entry", "", {}, nvl)
        rid == IF isNew THEN CreatedId ELSE e.fields["id"]
        \* try: setattr(self, 'id', result['id']) except: print(result)
        e2 == IF setAns = "ok" THEN setattr(e1, "id", rid) ELSE e1
        c2 == RemoteCall("get_entry_list", e2.fields["id"], AvailableFields, NoFields)
    IN  IF setAns = "raise"
        THEN Done(e1, "SugarUnhandledException", <<>>, <<c1>>)
        ELSE IF ~isNew
        THEN Done(ClearDirty(e2), "none", <<>>, <<c1>>)
        \* obj = self.objects.get(id=self.id)
        ELSE IF "id" \notin e2.attrs
        THEN Done(e2, "AttributeError", <<>>, <<c1>>)
        ELSE IF fetch.kind = "raise"
        THEN Done(e2, "SugarUnhandledException", <<>>, <<c1, c2>>)
        ELSE IF fetch.kind = "none"
        THEN Done(e2, "TypeError", <<>>, <<c1, c2>>)
        ELSE IF fetch.list = <<>>
        THEN Done(e2, "DoesNotExist", <<>>, <<c1, c2>>)
        ELSE Done(ClearDirty(CopyFields(e2, fetch.list[1])), "none", <<>>, <<c1, c2>>)

\* delete() without `self.deleted = 1`
delete_NoFlag(e, setAns, fetch) == save(e, setAns, fetch)

\* SugarEntry.delete(): self.deleted = 1; self.save()
delete(e, setAns, fetch) == save(setattr(e, "deleted", "1"), setAns, fetch)

\* The id save() hands to the re-fetch: the one set_entry answered, or the
\* entry's own.
RefetchId(e, setAns) ==
    IF e.st # "ok" THEN ""
    ELSE IF e.fields["id"] = "" /\ setAns = "ok" THEN CreatedId
    ELSE e.fields["id"]

(***************************************************************************)
(* The operations on the entry, as actions.                                *)
(***************************************************************************)
Last(op, name, val, before, r) ==
    [op |-> op, name |-> name, val |-> val, exc |-> r.exc, ret |-> r.ret,
     calls |-> r.calls,
     changed |-> (r.e.fields # before.fields \/ r.e.dirty # before.dirty),
     known |-> name \in DOMAIN before.fields,
     idBefore |-> IF "id" \in DOMAIN before.fields THEN before.fields["id"] ELSE "none"]

Commit(r) ==
    /\ eState' = r.e.st
    /\ fields' = r.e.fields
    /\ dirty' = r.e.dirty
    /\ attrs' = r.e.attrs

\* The initial values a constructor is given (_search gives a whole record).
Initials ==
    {NoFields, [x \in {"name"} |-> "a"], [x \in {"id"} |-> "r1"], [x \in {"id"} |-> ""]}
        \cup {rec \in RemoteRecords("r1") : rec["name"] = "a"}

\* SugarEntry.__init__; schemaAns is what get_module_fields does
init(initial, schemaAns) ==
    LET blank == [st |-> "ok", fields |-> NoFields, dirty |-> <<>>, attrs |-> {}]
        e1 == SetAll(blank, initial, DOMAIN initial)
        e2 == IF "id" \notin DOMAIN e1.fields
              THEN [e1 EXCEPT !.fields = Put(@, "id", "")] ELSE e1
    IN  IF schemaAns = "none"
        THEN [blank EXCEPT !.st = "nomodule"]
        ELSE e2

Construct(initial, schemaAns) ==
    /\ eState = "none"
    /\ LET e == init(initial, schemaAns)
           r == Done(e, "none", <<>>, <<>>)
       IN /\ Commit(r)
          /\ idTouched' = (e.st = "ok" /\ "id" \in DOMAIN initial)
          /\ last' = Last("init", "", "", Entry, r)
    /\ UNCHANGED <<callVars, queryVars, pureVars>>

GetItem(name) ==
    /\ eState # "none"
    /\ \E answer \in ListAnswers(IF eState = "ok" THEN fields["id"] ELSE "") :
         LET r == getitem(Entry, name, answer)
         IN Commit(r) /\ last' = Last("getitem", name, "", Entry, r)
    /\ UNCHANGED <<callVars, queryVars, pureVars, idTouched>>

Tuples == {<<"name", "bogus">>, <<"bogus", "deleted", "name">>, <<"name", "deleted">>}

GetTuple(names) ==
    /\ eState # "none"
    /\ \E answer \in ListAnswers(IF eState = "ok" THEN fields["id"] ELSE "") :
       \E early \in IF answer.kind = "list" /\ answer.list = <<>>
                    THEN SUBSET (Range(names) \cap AvailableFields) ELSE {{}} :
         LET r == gettuple(Entry, names, answer, early)
         IN Commit(r) /\ last' = Last("gettuple", IF UnknownField \in Range(names)
                                                   THEN UnknownField ELSE "", "", Entry, r)
    /\ UNCHANGED <<callVars, queryVars, pureVars, idTouched>>

SetItem(name, v) ==
    /\ eState # "none"
    /\ LET s == setitem(Entry, name, v)
           r == Done(s.e, s.exc, <<>>, <<>>)
       IN Commit(r) /\ last' = Last("setitem", name, v, Entry, r)
    /\ idTouched' = (idTouched \/ (name = "id" /\ eState = "ok"))
    /\ UNCHANGED <<callVars, queryVars, pureVars>>

SetAttr(name, v) ==
    /\ eState # "none"
    /\ LET r == Done(setattr(Entry, name, v), "none", <<>>, <<>>)
       IN Commit(r) /\ last' = Last("setattr", name, v, Entry, r)
    /\ idTouched' = (idTouched \/ (name = "id" /\ eState = "ok"))
    /\ UNCHANGED <<callVars, queryVars, pureVars>>

SetAnswers == {"ok", "noid", "none", "raise"}

Save(setAns) ==
    /\ eState # "none"
    /\ Len(dirty) < MaxDirty
    /\ \E fetch \in ListAnswers(RefetchId(Entry, setAns)) :
         LET r == save(Entry, setAns, fetch)
         IN /\ Commit(r)
            /\ last' = Last("save", "", setAns, Entry, r)
            /\ idTouched' = (idTouched \/ (setAns = "ok" /\ eState = "ok"))
    /\ UNCHANGED <<callVars, queryVars, pureVars>>

Delete(setAns) ==
    /\ eState # "none"
    /\ Len(dirty) < MaxDirty
    /\ \E fetch \in ListAnswers(RefetchId(Entry, setAns)) :
         LET r == delete(Entry, setAns, fetch)
         IN /\ Commit(r)
            /\ last' = Last("delete", "", setAns, Entry, r)
            /\ idTouched' = (idTouched \/ (setAns = "ok" /\ eState = "ok"))
    /\ UNCHANGED <<callVars, queryVars, pureVars>>

NoLast == [op |-> "none", name |-> "", val |-> "", exc |-> "none", ret |-> <<>>,
           calls |-> <<>>, changed |-> FALSE, known |-> FALSE, idBefore |-> "none"]

\* Before the entry is constructed.
InitEntry ==
    /\ eState = "none"
    /\ fields = NoFields
    /\ dirty = <<>>
    /\ attrs = {}
    /\ idTouched = FALSE
    /\ last = NoLast

NextEntry ==
    \/ \E initial \in Initials, a \in {"ok", "none"} : Construct(initial, a)
    \/ \E f \in FieldNames : GetItem(f)
    \/ \E t \in Tuples : GetTuple(t)
    \/ \E f \in FieldNames : \E v \in AssignValues(f) : SetItem(f, v)
    \/ \E f \in FieldNames : \E v \in AssignValues(f) : SetAttr(f, v)
    \/ \E a \in SetAnswers : Save(a)
    \/ \E a \in SetAnswers : Delete(a)

(***************************************************************************)
(* QueryList.  A query string is the sequence of its tokens, so that the   *)
(* strings the code concatenates are parsed by the remote as they are      *)
(* written: '(', ')', 'AND', 'NOT' and the conditions _build_query writes. *)
(* The remote holds a fixed list of records of the module.                 *)
(***************************************************************************)
MaxNarrow == 1      \* filter and exclude calls in one behaviour
MaxEvals == 2       \* evaluations of one QueryList instance
MaxIndex == 1       \* largest index or slice start given to __getitem__

\* '' and None where a number may stand (limit, offset, marks, slice bounds)
EmptyStr == 0 - 1
NoneMark == 0 - 2

\* The records the remote holds, in the order it returns them.
RecordIds == <<"r1", "r2", "r3">>
AllIds == Range(RecordIds)
Record(id) ==
    [f \in AvailableFields |->
        IF f = "id" THEN id
        ELSE IF f = "deleted" THEN "0"
        ELSE IF id = "r3" THEN "b" ELSE "a"]

\* One token of a query string: what it is, and for a condition the field
\* (self.model._table + '.' + key_field: one table here) and the value.
Tok(t, f, v) == [t |-> t, f |-> f, v |-> v]
LP == Tok("(", "", "")
RP == Tok(")", "", "")
AND == Tok("AND", "", "")
NOT == Tok("NOT", "", "")

\* A keyword argument key=val: key.partition('__') gives field, sep, oper;
\* val is the sequence of its elements (a scalar is its only element).
Kw(field, sep, oper, val) == [field |-> field, sep |-> sep, oper |-> oper, val |-> val]

\* The keyword arguments given to get.
Kwargs ==
    {<<Kw("id", "", "", <<"r1">>)>>,
     <<Kw("name", "", "", <<"a">>)>>,
     <<Kw("name", "", "", <<"a">>), Kw("id", "__", "exact", <<"r3">>)>>,
     <<Kw("bogus", "", "", <<"a">>)>>,
     <<Kw("name", "__", "regex", <<"a">>)>>,
     <<Kw("pk", "", "", <<"r3">>)>>}

\* Those given to filter and exclude.
NarrowKwargs ==
    {<<Kw("name", "", "", <<"a">>)>>,
     <<Kw("bogus", "", "", <<"a">>)>>,
     <<Kw("name", "__", "regex", <<"a">>)>>}

\* _build_query with the final else branch taken out: no operator is refused.
Supported_All(sep, oper) == TRUE

\* The operators _build_query knows ('' without '__' is equality).
Supported(sep, oper) ==
    \/ oper \in {"exact", "eq", "contains", "startswith", "in", "gt", "gte", "lt", "lte"}
    \/ (oper = "" /\ sep = "")

\* The condition written for one keyword argument on a field of the schema.
Condition(field, sep, oper, val) ==
    IF oper \in {"exact", "eq"} \/ (oper = "" /\ sep = "") THEN <<Tok("=", field, val[1])>>
    ELSE IF oper = "contains" THEN <<Tok("LIKE %v%", field, val[1])>>
    ELSE IF oper = "startswith" THEN <<Tok("LIKE v%", field, val[1])>>
    ELSE IF oper = "in"
    THEN <<Tok("IN (", field, "")>> \o [i \in 1..Len(val) |-> Tok("elem", "", val[i])] \o <<RP>>
    ELSE IF oper = "gt" THEN <<Tok(">", field, val[1])>>
    ELSE IF oper = "gte" THEN <<Tok(">=", field, val[1])>>
    ELSE IF oper = "lt" THEN <<Tok("<", field, val[1])>>
    ELSE <<Tok("<=", field, val[1])>>

\* 'id' not in query
HasKey(kw, key) == \E i \in 1..Len(kw) : kw[i].field = key /\ kw[i].sep = ""

\* The loop of _build_query from the i-th keyword argument on, q_str = q.
RECURSIVE BuildFrom(_, _, _)
BuildFrom(kw, i, q) ==
    IF i > Len(kw) THEN [exc |-> "none", q |-> q]
    ELSE LET c == kw[i]
             key_field == IF c.field = "pk" /\ ~HasKey(kw, "id") THEN "id" ELSE c.field
         IN  IF key_field \notin AvailableFields THEN BuildFrom(kw, i + 1, q)
             ELSE IF ~Supported(c.sep, c.oper) THEN [exc |-> "LookupError", q |-> <<>>]
             ELSE BuildFrom(kw, i + 1,
                            (IF q # <<>> THEN q \o <<AND>> ELSE q)
                                \o Condition(key_field, c.sep, c.oper, c.val))

\* QueryList._build_query(**query)
build_query(kw) == BuildFrom(kw, 1, <<>>)

(***************************************************************************)
(* The remote's reading of a query string: conditions joined by AND, NOT   *)
(* before a term, parentheses around an expression.  All values of a field *)
(* have the same length here, so a value contains or starts with v exactly *)
(* when it is v.                                                           *)
(***************************************************************************)
ValueOrder == <<"", "0", "1", "a", "b", "r1", "r2", "r3">>
Rank(v) == CHOOSE i \in 1..Len(ValueOrder) : ValueOrder[i] = v

Holds(cond, rec) ==
    LET x == rec[cond.f]
    IN  CASE cond.t \in {"=", "LIKE %v%", "LIKE v%"} -> x = cond.v
          [] cond.t = ">" -> Rank(x) > Rank(cond.v)
          [] cond.t = ">=" -> Rank(x) >= Rank(cond.v)
          [] cond.t = "<" -> Rank(x) < Rank(cond.v)
          [] cond.t = "<=" -> Rank(x) <= Rank(cond.v)
          [] OTHER -> FALSE

Parsed(ids, next) == [ok |-> TRUE, ids |-> ids, next |-> next]
\* A string that cannot be read: nothing is read after it.
Malformed(toks) == [ok |-> FALSE, ids |-> {}, next |-> Len(toks) + 1]

\* The first token from i on that is not an element of an IN list.
RECURSIVE EndOfList(_, _)
EndOfList(toks, i) ==
    IF i > Len(toks) \/ toks[i].t # "elem" THEN i ELSE EndOfList(toks, i + 1)

\* The element of a one-element set: {F(x) : x \in {e}} takes the value of
\* e once, however often F uses it.
Only(S) == CHOOSE x \in S : TRUE

RECURSIVE ParseExpr(_, _)
RECURSIVE ParseTerm(_, _)
\* term: NOT term, ( expr ), field IN ( elements ), or a comparison
ParseTerm(toks, i) ==
    IF i > Len(toks) THEN Malformed(toks)
    ELSE LET t == toks[i].t
         IN  IF t = "NOT"
             THEN Only({IF r.ok THEN Parsed(AllIds \ r.ids, r.next) ELSE Malformed(toks) :
                        r \in {ParseTerm(toks, i + 1)}})
             ELSE IF t = "("
             THEN Only({IF r.ok /\ r.next <= Len(toks) /\ toks[r.next].t = ")"
                        THEN Parsed(r.ids, r.next + 1) ELSE Malformed(toks) :
                        r \in {ParseExpr(toks, i + 1)}})
             ELSE IF t = "IN ("
             THEN Only({IF j > i + 1 /\ j <= Len(toks) /\ toks[j].t = ")"
                        THEN Parsed({id \in AllIds : Record(id)[toks[i].f] \in
                                        {toks[k].v : k \in (i + 1)..(j - 1)}}, j + 1)
                        ELSE Malformed(toks) :
                        j \in {EndOfList(toks, i + 1)}})
             ELSE IF t \in {"=", "LIKE %v%", "LIKE v%", ">", ">=", "<", "<="}
             THEN Parsed({id \in AllIds : Holds(toks[i], Record(id))}, i + 1)
             ELSE Malformed(toks)

\* expr: term, or term AND expr
ParseExpr(toks, i) ==
    Only({IF ~l.ok THEN Malformed(toks)
          ELSE IF l.next <= Len(toks) /\ toks[l.next].t = "AND"
          THEN Only({IF r.ok THEN Parsed(l.ids \cap r.ids, r.next) ELSE Malformed(toks) :
                     r \in {ParseExpr(toks, l.next + 1)}})
          ELSE l :
          l \in {ParseTerm(toks, i)}})

\* What the remote reads in the whole string.
Parse(q) ==
    Only({IF r.ok /\ r.next = Len(q) + 1 THEN r ELSE Malformed(q) : r \in {ParseExpr(q, 1)}})

\* The empty string selects every record.
WellFormed(q) == q = <<>> \/ Parse(q).ok
Selected(q) == IF q = <<>> THEN AllIds ELSE Parse(q).ids

Min(a, b) == IF a < b THEN a ELSE b

\* list[start:stop] of Python, start and stop not negative or None
PySlice(list, start, stop) ==
    LET s == IF start = NoneMark THEN 0 ELSE Min(start, Len(list))
        e == IF stop = NoneMark THEN Len(list) ELSE Min(stop, Len(list))
    IN  SubSeq(list, s + 1, e)

\* The records of the list that are selected, in its order.
RECURSIVE Keep(_, _)
Keep(list, ids) ==
    IF list = <<>> THEN <<>>
    ELSE (IF Head(list) \in ids THEN <<Head(list)>> ELSE <<>>) \o Keep(Tail(list), ids)

\* The entry_list the remote answers: the selected records from the offset
\* on, at most limit of them ('' and None: from the first, all of them).
EntryList(q, offset, limit) ==
    LET all == Keep(RecordIds, Selected(q))
        off == IF offset < 0 THEN 0 ELSE offset
    IN  PySlice(all, off, IF limit < 0 THEN NoneMark ELSE off + limit)

(***************************************************************************)
(* The QueryList object.  `_result_cache is None` is cached = FALSE; the   *)
(* cached entries are named by the ids of their records.                   *)
(***************************************************************************)
\* QueryList.__init__
QueryList(query, order_by, limit, offset, names) ==
    [query |-> query, order_by |-> order_by, cached |-> FALSE, cache |-> <<>>,
     low_mark |-> 0, high_mark |-> NoneMark, limit |-> limit, offset |-> offset,
     total |-> 0 - 1, fields |-> names]

\* fields=None, as a list of names
NoFieldList == <<>>

\* connection[module].objects
Objects == QueryList(<<>>, "", EmptyStr, EmptyStr, NoFieldList)

\* The get_entry_list request of SugarEntry._search
SearchCall(q) ==
    [query |-> q.query, order_by |-> q.order_by, offset |-> q.offset, limit |-> q.limit,
     fields |-> IF q.fields = NoFieldList THEN AvailableFields ELSE Range(q.fields)]

\* What the remote does with a get_entry_list request.
Answers == {"list", "raise", "none"}

\* SugarEntry._search for the query q: the entries, or the exception (a
\* fault, which a malformed query string gives too, or the None of a
\* null response, which resp_data['total_count'] does not take).
search(q, answer) ==
    IF answer = "raise" \/ ~WellFormed(q.query)
    THEN [exc |-> "SugarUnhandledException", entries |-> <<>>]
    ELSE IF answer = "none" THEN [exc |-> "TypeError", entries |-> <<>>]
    ELSE [exc |-> "none", entries |-> EntryList(q.query, q.offset, q.limit)]

\* What a method did: the instance after it, the exception it raised
\* ("none": it returned), the entries and the number it returned, the
\* requests it sent.
QDone(q, exc, ret, n, calls) == [q |-> q, exc |-> exc, ret |-> ret, n |-> n, calls |-> calls]

\* (mutant: the fetched entries are not kept)
fetch_all_NoStore(q, answer) ==
    IF q.cached THEN QDone(q, "none", <<>>, 0, <<>>)
    ELSE QDone(q, search(q, answer).exc, <<>>, 0, <<SearchCall(q)>>)

\* QueryList._fetch_all
fetch_all(q, answer) ==
    IF q.cached THEN QDone(q, "none", <<>>, 0, <<>>)
    ELSE LET s == search(q, answer)
         IN IF s.exc # "none" THEN QDone(q, s.exc, <<>>, 0, <<SearchCall(q)>>)
            ELSE QDone([q EXCEPT !.cached = TRUE, !.cache = s.entries],
                       "none", <<>>, 0, <<SearchCall(q)>>)

\* QueryList.__len__
len(q, answer) ==
    LET f == fetch_all(q, answer)
    IN IF f.exc # "none" THEN f ELSE QDone(f.q, "none", <<>>, Len(f.q.cache), f.calls)

\* QueryList.__iter__
iter(q, answer) ==
    LET f == fetch_all(q, answer)
    IN IF f.exc # "none" THEN f ELSE QDone(f.q, "none", f.q.cache, 0, f.calls)

\* QueryList.__bool__
bool(q, answer) ==
    LET f == fetch_all(q, answer)
    IN IF f.exc # "none" THEN f
       ELSE QDone(f.q, "none", <<>>, IF f.q.cache # <<>> THEN 1 ELSE 0, f.calls)

\* QueryList.first: the first cached entry, or None (no entry)
first(q, answer) ==
    LET f == fetch_all(q, answer)
    IN IF f.exc # "none" THEN f ELSE QDone(f.q, "none", SubSeq(f.q.cache, 1, 1), 0, f.calls)

\* QueryList.clear_limits
clear_limits(q) == [q EXCEPT !.limit = NoneMark, !.offset = 0]

\* QueryList._get_limit_offset_params: <<limit, offset>>
get_limit_offset_params(low_mark, high_mark) ==
    IF high_mark # NoneMark THEN <<high_mark - low_mark, low_mark>>
    ELSE <<NoneMark, low_mark>>

\* QueryList.set_limits
set_limits(q, low, high) ==
    LET h == IF high = NoneMark THEN q.high_mark
             ELSE IF q.high_mark # NoneMark THEN Min(q.high_mark, q.low_mark + high)
             ELSE q.low_mark + high
        l == IF low = NoneMark THEN q.low_mark
             ELSE IF h # NoneMark THEN Min(h, q.low_mark + low)
             ELSE q.low_mark + low
        q1 == [q EXCEPT !.low_mark = l, !.high_mark = h]
        p == get_limit_offset_params(l, h)
    IN  IF l = h THEN clear_limits(q1)
        ELSE [q1 EXCEPT !.limit = p[1], !.offset = p[2]]

\* QueryList._chain / _clone
chain(q) == QueryList(q.query, q.order_by, q.limit, q.offset, q.fields)

\* QueryList.__getitem__(k), k an integer
getindex(q, k, answer) ==
    LET q0 == clear_limits(q)
        f == fetch_all(set_limits(chain(q0), k, k + 1), answer)
    IN  IF k < 0 THEN QDone(q0, "AssertionError", <<>>, 0, <<>>)
        ELSE IF q0.cached
        THEN IF k < Len(q0.cache) THEN QDone(q0, "none", <<q0.cache[k + 1]>>, 0, <<>>)
             ELSE QDone(q0, "IndexError", <<>>, 0, <<>>)
        ELSE IF f.exc # "none" THEN QDone(q0, f.exc, <<>>, 0, f.calls)
        ELSE IF f.q.cache = <<>> THEN QDone(q0, "IndexError", <<>>, 0, f.calls)
        ELSE QDone(q0, "none", <<f.q.cache[1]>>, 0, f.calls)

\* QueryList.__getitem__(slice(start, stop)), no step
getslice(q, start, stop, answer) ==
    LET q0 == clear_limits(q)
        f == fetch_all(set_limits(chain(q0), start, stop), answer)
    IN  IF q0.cached THEN QDone(q0, "none", PySlice(q0.cache, start, stop), 0, <<>>)
        ELSE IF f.exc # "none" THEN QDone(q0, f.exc, <<>>, 0, f.calls)
        ELSE QDone(q0, "none", f.q.cache, 0, f.calls)

\* (mutant: get() returns the first of several entries)
get_FirstOfMany(q, kw, answer) ==
    LET b == build_query(kw)
        f == len(QueryList(b.q, "", EmptyStr, EmptyStr, q.fields), answer)
    IN  IF b.exc # "none" THEN QDone(q, b.exc, <<>>, 0, <<>>)
        ELSE IF f.exc # "none" THEN QDone(q, f.exc, <<>>, 0, f.calls)
        ELSE IF f.n >= 1 THEN QDone(q, "none", first(f.q, answer).ret, 0, f.calls)
        ELSE QDone(q, "DoesNotExist", <<>>, 0, f.calls)

\* QueryList.get(**query)
get(q, kw, answer) ==
    LET b == build_query(kw)
        f == len(QueryList(b.q, "", EmptyStr, EmptyStr, q.fields), answer)
    IN  IF b.exc # "none" THEN QDone(q, b.exc, <<>>, 0, <<>>)
        ELSE IF f.exc # "none" THEN QDone(q, f.exc, <<>>, 0, f.calls)
        ELSE IF f.n = 1 THEN QDone(q, "none", first(f.q, answer).ret, 0, f.calls)
        ELSE IF f.n = 0 THEN QDone(q, "DoesNotExist", <<>>, 0, f.calls)
        ELSE QDone(q, "MultipleObjectsReturned", <<>>, 0, f.calls)

\* filter that forgets the predicate of the query it is called on.
filter_Replace(q, kw) ==
    LET b == build_query(kw)
    IN  [exc |-> b.exc, qs |-> QueryList(b.q, q.order_by, q.limit, q.offset, q.fields)]

\* QueryList.filter(**query): the new instance, or the exception
filter(q, kw) ==
    LET b == build_query(kw)
        query == IF q.query # <<>>
                 THEN <<LP>> \o q.query \o <<RP, AND, LP>> \o b.q \o <<RP>>
                 ELSE b.q
    IN  [exc |-> b.exc, qs |-> QueryList(query, q.order_by, q.limit, q.offset, q.fields)]

\* QueryList.exclude(**query)
exclude(q, kw) ==
    LET b == build_query(kw)
        query == IF q.query # <<>>
                 THEN <<LP>> \o q.query \o <<RP, AND, NOT, LP>> \o b.q \o <<RP>>
                 ELSE <<NOT, LP>> \o b.q \o <<RP>>
    IN  [exc |-> b.exc, qs |-> QueryList(query, q.order_by, q.limit, q.offset, q.fields)]

\* QueryList.all
all(q) == [exc |-> "none", qs |-> QueryList(q.query, q.order_by, q.limit, q.offset, q.fields)]

\* QueryList.remove_invalid_fields
remove_invalid_fields(names) == SelectSeq(names, LAMBDA f : f \in AvailableFields)

\* An argument of order_by: whether it starts with '-', and the rest of it.
OrderValue(desc, name) == [desc |-> desc, name |-> name]

\* _get_ordering_field without the alias 'pk'
get_ordering_field_NoAlias(value) ==
    IF remove_invalid_fields(<<value.name>>) # <<>>
    THEN [field_name |-> value.name, desc |-> value.desc]
    ELSE [field_name |-> "", desc |-> FALSE]

\* QueryList._get_ordering_field: the field name, or None ("")
get_ordering_field(value) ==
    LET field_name == IF value.name = "pk" THEN "id" ELSE value.name
    IN  IF remove_invalid_fields(<<field_name>>) # <<>>
        THEN [field_name |-> field_name, desc |-> value.desc]
        ELSE [field_name |-> "", desc |-> FALSE]

\* QueryList.order_by
order_by(q, value) ==
    LET o == get_ordering_field(value)
        ordering == IF o.field_name = "" THEN q.order_by
                    ELSE IF o.desc THEN o.field_name \o " desc" ELSE o.field_name
    IN  [exc |-> "none", qs |-> QueryList(q.query, ordering, q.limit, q.offset, q.fields)]

\* QueryList.only(*_fields)
only(q, names) ==
    LET valid_fields == remove_invalid_fields(names)
    IN  [exc |-> "none",
         qs |-> QueryList(q.query, q.order_by, q.limit, q.offset,
                          IF valid_fields # <<>> THEN valid_fields ELSE q.fields)]

(***************************************************************************)
(* The operations on the QueryList the caller holds, as actions.  filter   *)
(* and exclude hand the caller a new instance, which it holds from then    *)
(* on.                                                                     *)
(***************************************************************************)
NoStats == [evals |-> 0, returned |-> 0, fetches |-> 0, firstOk |-> FALSE]

QLast(op, kw, k, stop, r) ==
    [op |-> op, kw |-> kw, k |-> k, stop |-> stop, exc |-> r.exc,
     ret |-> r.ret, n |-> r.n, calls |-> r.calls, cachedBefore |-> qs.cached]

\* An evaluation of the instance that did r.
Evaluate(op, k, stop, r) ==
    /\ qstats.evals < MaxEvals
    /\ qs' = r.q
    /\ qstats' = [evals |-> qstats.evals + 1,
                  returned |-> qstats.returned + (IF r.exc = "none" THEN 1 ELSE 0),
                  fetches |-> qstats.fetches + Len(r.calls),
                  firstOk |-> IF qstats.evals = 0
                              THEN op \in {"len", "iter", "bool"} /\ r.exc = "none"
                              ELSE qstats.firstOk]
    /\ qlast' = QLast(op, <<>>, k, stop, r)
    /\ UNCHANGED <<callVars, entryVars, pureVars, narrowed>>

LenOf == \E a \in Answers : Evaluate("len", 0, 0, len(qs, a))

IterOf == \E a \in Answers : Evaluate("iter", 0, 0, iter(qs, a))

BoolOf == \E a \in Answers : Evaluate("bool", 0, 0, bool(qs, a))

GetIndex(k) == \E a \in Answers : Evaluate("index", k, 0, getindex(qs, k, a))

GetSlice(start, stop) ==
    \E a \in Answers : Evaluate("slice", start, stop, getslice(qs, start, stop, a))

Get(kw) ==
    /\ \E a \in Answers : qlast' = QLast("get", kw, 0, 0, get(qs, kw, a))
    /\ UNCHANGED <<callVars, entryVars, pureVars, qs, qstats, narrowed>>

\* A method that returns a new QueryList: r is what it did.
Derive(op, kw, r) ==
    /\ narrowed < MaxNarrow
    /\ IF r.exc = "none"
       THEN qs' = r.qs /\ qstats' = NoStats /\ narrowed' = narrowed + 1
       ELSE UNCHANGED <<qs, qstats, narrowed>>
    /\ qlast' = QLast(op, kw, 0, 0, QDone(qs, r.exc, <<>>, 0, <<>>))
    /\ UNCHANGED <<callVars, entryVars, pureVars>>

Filter(kw) == Derive("filter", kw, filter(qs, kw))

Exclude(kw) == Derive("exclude", kw, exclude(qs, kw))

NoQLast ==
    [op |-> "none", kw |-> <<>>, k |-> 0, stop |-> 0, exc |-> "none",
     ret |-> <<>>, n |-> 0, calls |-> <<>>, cachedBefore |-> FALSE]

InitQuery ==
    /\ qs = Objects
    /\ qstats = NoStats
    /\ narrowed = 0
    /\ qlast = NoQLast

NextQuery ==
    \/ LenOf
    \/ IterOf
    \/ BoolOf
    \* the integers and the slice bounds given to __getitem__
    \/ \E k \in (0 - 1)..MaxIndex : GetIndex(k)
    \/ \E start \in {NoneMark} \cup 0..MaxIndex, stop \in {NoneMark, 0, MaxIndex} :
          GetSlice(start, stop)
    \/ \E kw \in Kwargs : Get(kw)
    \/ \E kw \in NarrowKwargs : Filter(kw)
    \/ \E kw \in NarrowKwargs : Exclude(kw)

(***************************************************************************)
(* _build_query as a function of its keyword arguments, and the methods    *)
(* that call it, applied once to connection[module].objects.               *)
(***************************************************************************)
MaxKw == 2          \* keyword arguments in one call

\* The keyword arguments given: up to MaxKw different keys, each a known or
\* an unknown name alone, followed by '__', or followed by '__' and a word.
BuildKwargs ==
    LET opers == {<<"__", o>> : o \in {"exact", "eq", "contains", "startswith", "in", "gt",
                                       "gte", "lt", "lte", "regex", ""}} \cup {<<"", "">>}
        items == {Kw(f, so[1], so[2], <<"a">>) :
                     f \in {"name", "id", "pk", UnknownField}, so \in opers}
    IN  {kw \in UNION {[1..n -> items] : n \in 1..MaxKw} :
            \A i, j \in 1..Len(kw) : i # j =>
                <<kw[i].field, kw[i].sep, kw[i].oper>> # <<kw[j].field, kw[j].sep, kw[j].oper>>}

\* _build_query(**kw), and filter, exclude and get with the same arguments
Build(kw) ==
    /\ ~built.done
    /\ built' = [kw |-> kw, exc |-> build_query(kw).exc, q |-> build_query(kw).q,
                 filter |-> filter(Objects, kw).exc,
                 exclude |-> exclude(Objects, kw).exc,
                 get |-> get(Objects, kw, "list").exc,
                 done |-> TRUE]
    /\ UNCHANGED <<callVars, entryVars, queryVars, nq, nsteps, nlast, wq, wlast, wstats,
                   hashes, hcount, hseen, hlast, sch>>

\* The call is made once.
NextBuild == \E kw \in IF built.done THEN {} ELSE BuildKwargs : Build(kw)

(***************************************************************************)
(* A chain of narrowing calls, objects.filter(...).exclude(...)...: each   *)
(* call is made on the QueryList the previous one returned.  Nothing is    *)
(* evaluated, so the remote is not involved.                               *)
(***************************************************************************)
MaxChain == 2       \* calls in one chain

\* filter/exclude arguments: one equality constraint on a field of the
\* schema or on an unknown name, two constraints, an unknown operator.
ChainKwargs ==
    {<<Kw(f, "", "", <<v>>)>> : f \in AvailableFields \cup {UnknownField}, v \in {"a", "r1", "0"}}
        \cup {<<Kw("name", "", "", <<"a">>), Kw(UnknownField, "", "", <<"a">>)>>,
              <<Kw("name", "__", "regex", <<"a">>)>>}

\* One call of a chain on q and what it gave; kw, value and names are the
\* arguments of filter/exclude, order_by and only.
Step(op, kw, value, names, q) ==
    LET r == CASE op = "filter" -> filter(q, kw)
               [] op = "exclude" -> exclude(q, kw)
               [] op = "order_by" -> order_by(q, value)
               [] op = "only" -> only(q, names)
               [] OTHER -> all(q)
    IN  [op |-> op, kw |-> kw, value |-> value, names |-> names,
         before |-> q, exc |-> r.exc, ret |-> r.qs]

\* The call is made on nq; the chain goes on from the QueryList it returned.
Narrow(op, kw, value, names) ==
    /\ Len(nsteps) < MaxChain
    /\ nlast' = Step(op, kw, value, names, nq)
    /\ nsteps' = Append(nsteps, [op |-> op, kw |-> kw, exc |-> nlast'.exc])
    /\ nq' = IF nlast'.exc = "none" THEN nlast'.ret ELSE nq
    /\ UNCHANGED <<callVars, entryVars, queryVars, built, wq, wlast, wstats,
                   hashes, hcount, hseen, hlast, sch>>

NextNarrow ==
    \/ \E kw \in ChainKwargs : Narrow("filter", kw, OrderValue(FALSE, ""), <<>>)
    \/ \E kw \in ChainKwargs : Narrow("exclude", kw, OrderValue(FALSE, ""), <<>>)
    \/ Narrow("all", <<>>, OrderValue(FALSE, ""), <<>>)
    \* order_by('name'), ('-name'), ('pk'), ('-pk') and with an unknown name
    \/ \E desc \in BOOLEAN, n \in {"name", "pk", UnknownField} :
          Narrow("order_by", <<>>, OrderValue(desc, n), <<>>)
    \/ \E names \in {<<"name">>, <<"id", UnknownField>>, <<UnknownField>>} :
          Narrow("only", <<>>, OrderValue(FALSE, ""), names)

(***************************************************************************)
(* set_limits and count() on one QueryList: both change the instance they  *)
(* are called on.  get_entries_count answers the number of records the     *)
(* predicate selects, None, or a fault.                                    *)
(***************************************************************************)
MaxWindow == 3      \* calls on the instance in one behaviour
MaxMark == 2        \* largest low or high given to set_limits

\* The get_entries_count request of count()
CountCall(q) == [m |-> "get_entries_count", query |-> q.query]

\* count() that does not keep the total it was answered
count_NoStore(q, answer) ==
    IF q.total # 0 - 1 THEN QDone(q, "none", <<>>, q.total, <<>>)
    ELSE IF answer = "raise" \/ ~WellFormed(q.query)
    THEN QDone(q, "SugarUnhandledException", <<>>, 0, <<CountCall(q)>>)
    ELSE IF answer = "none" THEN QDone(q, "TypeError", <<>>, 0, <<CountCall(q)>>)
    ELSE QDone(q, "none", <<>>, Cardinality(Selected(q.query)), <<CountCall(q)>>)

\* QueryList.count
count(q, answer) ==
    IF q.total # 0 - 1 THEN QDone(q, "none", <<>>, q.total, <<>>)
    ELSE IF answer = "raise" \/ ~WellFormed(q.query)
    THEN QDone(q, "SugarUnhandledException", <<>>, 0, <<CountCall(q)>>)
    ELSE IF answer = "none" THEN QDone(q, "TypeError", <<>>, 0, <<CountCall(q)>>)
    ELSE LET n == Cardinality(Selected(q.query))
         IN QDone([q EXCEPT !.total = n], "none", <<>>, n, <<CountCall(q)>>)

\* A call on wq that did r.
Window(op, low, high, r) ==
    /\ wstats.calls < MaxWindow
    /\ wq' = r.q
    /\ wlast' = [op |-> op, low |-> low, high |-> high, before |-> wq,
                 exc |-> r.exc, n |-> r.n, calls |-> r.calls]
    /\ wstats' = [calls |-> wstats.calls + 1,
                  counts |-> wstats.counts + (IF op = "count" THEN 1 ELSE 0),
                  requests |-> wstats.requests + Len(r.calls),
                  returned |-> wstats.returned
                                  + (IF op = "count" /\ r.exc = "none" THEN 1 ELSE 0)]
    /\ UNCHANGED <<callVars, entryVars, queryVars, built, nq, nsteps, nlast,
                   hashes, hcount, hseen, hlast, sch>>

SetLimits(low, high) ==
    Window("set_limits", low, high, QDone(set_limits(wq, low, high), "none", <<>>, 0, <<>>))

CountOf(answer) == Window("count", NoneMark, NoneMark, count(wq, answer))

NextWindow ==
    \/ \E low, high \in {NoneMark} \cup 0..MaxMark : SetLimits(low, high)
    \/ \E a \in Answers : CountOf(a)

(***************************************************************************)
(* hash() of SugarEntry proxies.  _hashes is one defaultdict of the class, *)
(* shared by all proxies; its default factory is the next number of one    *)
(* counter.  A proxy is its module name, its id and whether it has a       *)
(* schema (without one self['id'] raises).                                 *)
(***************************************************************************)
\* a key made of the id alone
HashKey_IdOnly(module, id) == id

\* '%s-%s' % (self.module_name, self['id'])
HashKey(module, id) == module \o "-" \o id

\* SugarEntry.__hash__ of a proxy
Hash(module, id, schema) ==
    /\ LET key == HashKey(module, id)
           h == IF key \in DOMAIN hashes THEN hashes[key] ELSE hcount + 1
       IN  IF ~schema
           THEN /\ hlast' = [module |-> module, id |-> id, exc |-> "AttributeError", ret |-> 0]
                /\ UNCHANGED <<hashes, hcount, hseen>>
           ELSE /\ hashes' = Put(hashes, key, h)
                /\ hcount' = IF key \in DOMAIN hashes THEN hcount ELSE hcount + 1
                /\ hseen' = hseen \cup {[module |-> module, id |-> id, h |-> h]}
                /\ hlast' = [module |-> module, id |-> id, exc |-> "none", ret |-> h]
    /\ UNCHANGED <<callVars, entryVars, queryVars, built, nq, nsteps, nlast,
                   wq, wlast, wstats, sch>>

\* Proxies of two modules, without id, with a record's id, and with ids
\* that hold the separator of the key.
NextHash ==
    \E module \in {"Tasks", "Tasks-x"}, id \in {"", "r1", "x-r1"}, schema \in BOOLEAN :
        Hash(module, id, schema)

(***************************************************************************)
(* The schema requests of one connection.  SugarEntry.__init__ asks the    *)
(* connection for get_module_fields(module_name) each time it runs;        *)
(* Sugarcrm.__getitem__ keeps the proxy it constructed in self.modules;    *)
(* _search constructs one SugarEntry for each record it received.          *)
(***************************************************************************)
MaxSchema == 4      \* constructions, lookups and evaluations in one behaviour
MaxFound == 2       \* records one evaluation materializes

\* An operation that constructs n SugarEntry objects of the module: n
\* get_module_fields requests.
SchemaOp(op, module, exc, mods, n) ==
    /\ sch.ops < MaxSchema
    /\ sch' = [sch EXCEPT !.modules = mods, !.requests[module] = @ + n, !.ops = @ + 1,
                          !.last = [op |-> op, module |-> module, exc |-> exc]]
    /\ UNCHANGED <<callVars, entryVars, queryVars, built, nq, nsteps, nlast,
                   wq, wlast, wstats, hashes, hcount, hseen, hlast>>

\* connection[key]
ConnGetItem(key) ==
    IF key \notin sch.rst_modules
    THEN SchemaOp("getitem", key, "KeyError", sch.modules, 0)
    ELSE IF key \notin sch.modules
    THEN SchemaOp("getitem", key, "none", sch.modules \cup {key}, 1)
    ELSE SchemaOp("getitem", key, "none", sch.modules, 0)

\* SugarEntry(connection, module_name)
NewEntry(module) == SchemaOp("new", module, "none", sch.modules, 1)

\* the evaluation of a query of connection[module], n records received
SearchEntries(module, n) ==
    /\ module \in sch.modules
    /\ SchemaOp("search", module, "none", sch.modules, n)

NextSchema ==
    \/ \E key \in DOMAIN sch.requests : ConnGetItem(key)
    \/ \E module \in DOMAIN sch.requests : NewEntry(module)
    \/ \E module \in DOMAIN sch.requests, n \in 0..MaxFound : SearchEntries(module, n)

(***************************************************************************)
(* The specifications.                                                     *)
(***************************************************************************)
Init ==
    /\ InitCall /\ InitEntry /\ InitQuery
    \* _build_query not yet called, and no call made on objects
    /\ built = [kw |-> <<>>, exc |-> "none", q |-> <<>>, filter |-> "none",
                exclude |-> "none", get |-> "none", done |-> FALSE]
    /\ nq = Objects /\ nsteps = <<>>
    /\ nlast = [op |-> "none", kw |-> <<>>, value |-> OrderValue(FALSE, ""), names |-> <<>>,
                before |-> Objects, exc |-> "none", ret |-> Objects]
    \* no call made on the instance yet
    /\ wq = Objects
    /\ wlast = [op |-> "none", low |-> NoneMark, high |-> NoneMark, before |-> Objects,
                exc |-> "none", n |-> 0, calls |-> <<>>]
    /\ wstats = [calls |-> 0, counts |-> 0, requests |-> 0, returned |-> 0]
    \* _hashes = defaultdict(count(1).__next__), no proxy hashed yet
    /\ hashes = NoFields /\ hcount = 0 /\ hseen = {}
    /\ hlast = [module |-> "", id |-> "", exc |-> "none", ret |-> 0]
    \* Sugarcrm.__init__: self.modules = {}, rst_modules from the server
    /\ sch = [rst_modules |-> {"Tasks", "Notes"}, modules |-> {},
              requests |-> [m \in {"Tasks", "Notes", "Bogus"} |-> 0],
              ops |-> 0, last |-> [op |-> "none", module |-> "", exc |-> "none"]]

SpecCall == Init /\ [][NextCall]_vars

\* A thread inside _method_call goes on: nothing in it waits.
SpecCallFair == SpecCall /\ WF_vars(ThreadStep(1))

SpecEntry == Init /\ [][NextEntry]_vars

SpecQuery == Init /\ [][NextQuery]_vars

SpecBuild == Init /\ [][NextBuild]_vars

SpecNarrow == Init /\ [][NextNarrow]_vars

SpecWindow == Init /\ [][NextWindow]_vars

SpecHash == Init /\ [][NextHash]_vars

SpecSchema == Init /\ [][NextSchema]_vars

(***************************************************************************)
(* Properties of the connection, checked under SpecCall.                   *)
(***************************************************************************)

\* C1: when the first request of _method_call fails with the invalid-session
\* fault (number 11), the invocation sends exactly one login; when that login
\* returns a token, the stored session token is that (fresh) token and the
\* same method with the same arguments and the new token is sent exactly
\* once more; when that request produces a result, the invocation returns it.
C1_ReloginRepeatsOnce ==
    \A t \in AllThreads :
        (pc[t] = "done" /\ fault1[t] = 11) =>
            /\ logins[t] = 1
            /\ tok[t] # 0 =>
                 /\ session = tok[t]
                 /\ tok[t] # sent[t][1].data[1]
                 /\ Len(sent[t]) = 2
                 /\ sent[t][2] = [method |-> call[t].method,
                                  data |-> <<tok[t]>> \o call[t].args]
                 /\ sent[t][2].method = sent[t][1].method
                 /\ Tail(sent[t][2].data) = Tail(sent[t][1].data)
                 /\ resp2[t].kind = "return" =>
                        /\ outcome[t].kind = "return"
                        /\ outcome[t].value = resp2[t].value
                        /\ outcome[t].value.kind = "json"

C1_Witness ==
    \E t \in AllThreads :
        /\ pc[t] = "done" /\ fault1[t] = 11 /\ tok[t] # 0
        /\ Len(sent[t]) = 2 /\ outcome[t].kind = "return"
        /\ outcome[t].value.value = "r2"

\* The classes of each fault number: as the specification lists them (with
\* the number 1 for invalid session) and as the program implements them.
SpecTable(n) ==
    CASE n = 0 -> {"null_response"}
      [] n = 1 -> {"invalid_session"}
      [] n = 10 -> {"invalid_login"}
      [] n = 20 -> {"missing_module"}
      [] n = 1001 -> {"invalid_request"}
      [] OTHER -> {}

CodeTable(n) ==
    CASE n = 0 -> {"null_response"}
      [] n = 11 -> {"invalid_session"}
      [] n = 10 -> {"invalid_login"}
      [] n = 20 -> {"missing_module"}
      [] n = 1001 -> {"invalid_request"}
      [] OTHER -> {}

\* What a class table says of one recorded first fault: the SugarError is in
\* exactly the classes of the table, a re-login happens exactly for the
\* invalid-session class, and a number in none of the classes (or only in
\* invalid login) ends the invocation with SugarUnhandledException.
ClassifiedBy(t, classes) ==
    /\ cls[t] = classes
    /\ (pc[t] \in {"login", "assign", "req2"} \/ logins[t] > 0)
           <=> ("invalid_session" \in classes)
    /\ (pc[t] = "done" /\ classes \subseteq {"invalid_login"}) =>
           outcome[t] = Raise("SugarUnhandledException", fault1[t])

\* C9 (as amended): the classifier maps 0 to null response, 11 to invalid
\* session (the fault that triggers the re-login), 10 to invalid login, 20 to
\* missing module and 1001 to invalid request; every other number, 1
\* included, is in none of the classes and ends the call as unhandled.
C9_ClassifierTable ==
    \A t \in AllThreads :
        fault1[t] # NoNumber => ClassifiedBy(t, CodeTable(fault1[t]))

\* C9 (as stated): the same with 1 as the number of invalid session.
C9_AsStated ==
    \A t \in AllThreads :
        fault1[t] # NoNumber => ClassifiedBy(t, SpecTable(fault1[t]))

C9_Witness ==
    \E t \in AllThreads :
        /\ fault1[t] = 11 /\ cls[t] = {"invalid_session"} /\ logins[t] = 1
        /\ pc[t] = "done"

\* C10: when the first request fails with the missing-module fault (20) or the
\* null-response fault (0), and an empty body is such a fault, _method_call
\* returns None, sends no login and no second request and leaves the session
\* token as it was.
C10_EmptyResultNoRetry ==
    \A t \in AllThreads :
        /\ (pc[t] = "done" /\ body1[t].kind = "empty") => fault1[t] = 0
        /\ (pc[t] = "done" /\ fault1[t] \in {0, 20}) =>
              /\ outcome[t] = Ret(NoneBody)
              /\ logins[t] = 0
              /\ Len(sent[t]) = 1
              /\ tok[t] = 0
              /\ session = sent[t][1].data[1]

C10_Witness ==
    /\ \E t \in AllThreads :
        /\ pc[t] = "done" /\ body1[t].kind = "empty"
        /\ outcome[t] = Ret(NoneBody) /\ ncalls[t] = 2
        /\ session = 2

\* C11 (as stated): when the first request fails with the invalid-request
\* fault (1001), _method_call returns normally and no exception reaches the
\* caller.
C11_AsStated ==
    \A t \in AllThreads :
        (pc[t] = "done" /\ fault1[t] = 1001) => outcome[t].kind = "return"

\* C12: a SugarError of the first request whose number is none of 11, 20, 0
\* and 1001 (10 for one) ends _method_call with SugarUnhandledException
\* carrying that number; no login and no second request is sent and the
\* session token stays the one the request was sent with.
C12_OtherFaultsUnhandled ==
    \A t \in AllThreads :
        (pc[t] = "done" /\ fault1[t] \notin {NoNumber, 11, 20, 0, 1001}) =>
            /\ outcome[t] = Raise("SugarUnhandledException", fault1[t])
            /\ logins[t] = 0
            /\ Len(sent[t]) = 1
            /\ tok[t] = 0
            /\ session = sent[t][1].data[1]

\* An invalid-login fault in the second invocation, after a re-login in the
\* first.
C12_Witness ==
    \E t \in AllThreads :
        /\ pc[t] = "done" /\ fault1[t] = 10 /\ ncalls[t] = 2
        /\ outcome[t] = Raise("SugarUnhandledException", 10)
        /\ session = 2

\* C13: an invocation of _method_call sends at most one login and at most
\* two requests of the method; a repeated request that fails ends the
\* invocation with the exception it raised, no result is returned and
\* nothing more is sent; and every invocation comes to its end.
C13_AtMostOneRetry ==
    /\ [](\A t \in AllThreads :
            /\ logins[t] <= 1
            /\ Len(sent[t]) <= 2
            /\ Len(sent[t]) = 2 => logins[t] = 1
            /\ resp2[t].kind = "raise" =>
                  /\ pc[t] \in {"done", "idle"}
                  /\ outcome[t] = resp2[t]
                  /\ Len(sent[t]) = 2)
    /\ \A t \in AllThreads : (pc[t] = "req1") ~> (pc[t] = "done")

\* The repeated request failed with the invalid-session fault again (the
\* server dropped the fresh session) and the invocation ended with it.
C13_Witness ==
    \E t \in AllThreads :
        /\ pc[t] = "done" /\ logins[t] = 1 /\ Len(sent[t]) = 2
        /\ resp2[t] = Raise("SugarError", 11)
        /\ outcome[t] = Raise("SugarError", 11)

(***************************************************************************)
(* Properties of the entity proxy, checked under SpecEntry.                *)
(***************************************************************************)

\* C3 (as amended): for a name outside the schema, the read entry[name] and
\* the write entry[name] = v fail with AttributeError and leave the value
\* mapping and the dirty list unchanged; the attribute assignment
\* entry.name = v does not fail, it sets a plain attribute and leaves both
\* unchanged; a tuple read with such a member fails (with AttributeError
\* unless its remote request failed first), but may first have stored, and
\* marked dirty, the unseen schema fields of the tuple.  The name is never
\* in the value mapping nor in the dirty list.
C3_UnknownFieldRejected ==
    eState = "ok" =>
        /\ UnknownField \notin DOMAIN fields
        /\ UnknownField \notin Range(dirty)
        /\ last.name = UnknownField =>
            /\ last.op \in {"getitem", "setitem"} =>
                   last.exc = "AttributeError" /\ ~last.changed /\ last.calls = <<>>
            /\ last.op = "setattr" =>
                   last.exc = "none" /\ ~last.changed /\ UnknownField \in attrs
            /\ last.op = "gettuple" =>
                   /\ last.exc # "none"
                   /\ Len(last.calls) = 1
                   /\ UnknownField \in last.calls[1].sel
                   /\ last.exc # "AttributeError" => ~last.changed

\* C3 (as stated): every read and write of a name outside the schema fails
\* with AttributeError and leaves the value mapping and dirty list unchanged.
C3_AsStated ==
    (eState = "ok" /\ last.name = UnknownField
        /\ last.op \in {"getitem", "gettuple", "setitem", "setattr"}) =>
            last.exc = "AttributeError" /\ ~last.changed

C3_Witness ==
    /\ eState = "ok" /\ last.op = "gettuple" /\ last.name = UnknownField
    /\ last.exc = "AttributeError" /\ last.changed
    /\ "name" \in Range(dirty)

\* C4: save() on an entry whose id is '' that returns has sent one set_entry
\* that names no record (a create), has set the id to the non-empty id the
\* remote answered, has re-fetched the record of that id with every field of
\* the schema, so that every field is in the value mapping, and has left the
\* dirty list empty.
C4_CreateAssignsIdAndRefetches ==
    (last.op = "save" /\ last.idBefore = "" /\ last.exc = "none") =>
        /\ Len(last.calls) = 2
        /\ last.calls[1].m = "set_entry"
        /\ ("id" \in DOMAIN last.calls[1].nvl => last.calls[1].nvl["id"] = "")
        /\ fields["id"] = CreatedId
        /\ fields["id"] # ""
        /\ last.calls[2].m = "get_entry_list"
        /\ last.calls[2].id = fields["id"]
        /\ last.calls[2].sel = AvailableFields
        /\ DOMAIN fields = AvailableFields
        /\ dirty = <<>>

\* The caller assigned only the name; deleted = "0" can only come from the
\* re-fetch.
C4_Witness ==
    /\ last.op = "save" /\ last.idBefore = "" /\ last.exc = "none"
    /\ DOMAIN last.calls[1].nvl = {"name"}
    /\ fields["deleted"] = "0"
    /\ dirty = <<>>

\* C5 (as stated): every invocation of save() ends with the dirty list empty.
C5_AsStated == last.op = "save" => dirty = <<>>

\* C7 (as stated): after an assignment of v to a schema field f, the value
\* mapping holds v for f and f is in the dirty list exactly once; a read of a
\* field that is in the value mapping returns its value, makes no remote call
\* and changes nothing.
C7_AsStated ==
    eState = "ok" =>
        /\ (last.op \in {"setitem", "setattr"} /\ last.name \in AvailableFields) =>
              /\ last.exc = "none"
              /\ fields[last.name] = last.val
              /\ Count(dirty, last.name) = 1
        /\ (last.op = "getitem" /\ last.known) =>
              /\ last.exc = "none"
              /\ last.ret = <<fields[last.name]>>
              /\ last.calls = <<>>
              /\ ~last.changed

\* C8 (as stated): a constructed entry has 'id' in its value mapping, and ''
\* for it as long as no id was given, assigned or set by save().
C8_AsStated ==
    eState # "none" =>
        /\ "id" \in DOMAIN fields
        /\ ~idTouched => fields["id"] = ""

Satisfies(rec, c, kw) ==
    LET f == IF c.field = "pk" /\ ~HasKey(kw, "id") THEN "id" ELSE c.field
    IN  f \in AvailableFields =>
            CASE c.oper \in {"", "exact", "eq", "contains", "startswith"} -> rec[f] = c.val[1]
              [] c.oper = "in" -> rec[f] \in Range(c.val)
              [] c.oper = "gt" -> Rank(rec[f]) > Rank(c.val[1])
              [] c.oper = "gte" -> Rank(rec[f]) >= Rank(c.val[1])
              [] c.oper = "lt" -> Rank(rec[f]) < Rank(c.val[1])
              [] c.oper = "lte" -> Rank(rec[f]) <= Rank(c.val[1])
              [] OTHER -> FALSE

\* The records of the remote that match the keyword arguments.
Matching(kw) ==
    {id \in AllIds : \A i \in 1..Len(kw) : Satisfies(Record(id), kw[i], kw)}

\* C6: a get(**kwargs) that returns, returns the one record that matches the
\* keyword arguments; when the remote answered its request, get() returns
\* if exactly one record matches, raises DoesNotExist if none does and
\* MultipleObjectsReturned if two or more do.
C6_GetOneZeroMany ==
    qlast.op = "get" =>
        LET m == Matching(qlast.kw)
            answered == qlast.exc \notin {"LookupError", "SugarUnhandledException", "TypeError"}
        IN  /\ qlast.exc = "none" => (Cardinality(m) = 1 /\ Len(qlast.ret) = 1 /\ qlast.ret[1] \in m)
            /\ qlast.exc # "none" => qlast.ret = <<>>
            /\ (answered /\ Cardinality(m) = 1) => qlast.exc = "none"
            /\ (answered /\ Cardinality(m) = 0) => qlast.exc = "DoesNotExist"
            /\ (answered /\ Cardinality(m) >= 2) => qlast.exc = "MultipleObjectsReturned"
            /\ answered <=> (Len(qlast.calls) = 1 /\ qlast.exc \notin {"SugarUnhandledException", "TypeError"})

\* get(pk='r3') on a narrowed query returned the entry of record r3.
C6_Witness ==
    /\ qlast.op = "get" /\ qlast.exc = "none" /\ qlast.ret = <<"r3">>
    /\ narrowed = 1 /\ qs.query # <<>>

\* C14 as stated: no narrowing operation, indexing and slicing included,
\* changes the limit or the offset of the QueryList it is called on or sends
\* a request, and what filter or exclude returns starts without a cache.
\* The QueryList the caller holds starts as objects, and filter and exclude
\* copy the limit and the offset, so they would stay those of objects.
C14_AsStated ==
    /\ qs.limit = Objects.limit /\ qs.offset = Objects.offset
    /\ (qlast.op \in {"filter", "exclude", "index", "slice"} => qlast.calls = <<>>)
    /\ (qlast.op \in {"filter", "exclude"} /\ qlast.exc = "none" => ~qs.cached)

\* The operators the documentation of filter, exclude and get names.
NamedOperators == {"exact", "eq", "contains", "startswith", "in", "gt", "gte", "lt", "lte"}

\* The field a keyword argument of kw constrains: 'pk' stands for 'id'
\* unless kw has a key 'id' of its own.
ConstrainedField(kw, c) == IF c.field = "pk" /\ ~HasKey(kw, "id") THEN "id" ELSE c.field

\* kw has a constraint on a field of the schema whose operator is none of
\* the named ones: another word after '__', or nothing after '__'.
Refused(kw) ==
    \E i \in 1..Len(kw) :
        /\ ConstrainedField(kw, kw[i]) \in AvailableFields
        /\ kw[i].oper \notin NamedOperators
        /\ ~(kw[i].oper = "" /\ kw[i].sep = "")

\* C15: _build_query, and with it filter, exclude and get, raises LookupError
\* exactly when some constraint on a field of the schema has an operator
\* other than exact, eq, contains, startswith, in, gt, gte, lt, lte or none;
\* no query is returned then.  A constraint on a name outside the schema is
\* dropped whatever its operator is.
C15_UnsupportedOperator ==
    built.done =>
        /\ (built.exc = "LookupError") <=> Refused(built.kw)
        /\ (built.filter = "LookupError") <=> Refused(built.kw)
        /\ (built.exclude = "LookupError") <=> Refused(built.kw)
        /\ (built.get = "LookupError") <=> Refused(built.kw)
        /\ Refused(built.kw) => built.q = <<>>

\* filter(bogus__regex='a', name__regex='a'): the first constraint is
\* dropped, the second one raises.
C15_Witness ==
    /\ built.done
    /\ built.kw = <<Kw(UnknownField, "__", "regex", <<"a">>), Kw("name", "__", "regex", <<"a">>)>>
    /\ built.exc = "LookupError" /\ built.filter = "LookupError" /\ built.q = <<>>

\* C15 as stated: the operation fails with LookupError exactly when some
\* constraint has an operator outside the named ones (keys that end in '__',
\* where the claim can be read both ways, set aside).
C15_AsStated ==
    (built.done /\ \A i \in 1..Len(built.kw) : ~(built.kw[i].sep = "__" /\ built.kw[i].oper = "")) =>
        ((\E i \in 1..Len(built.kw) : built.kw[i].oper \notin NamedOperators \cup {""})
            <=> (built.filter = "LookupError" /\ built.exclude = "LookupError"
                    /\ built.get = "LookupError"))

\* Every constraint of kw names a field outside the schema.
AllUnknown(kw) ==
    \A i \in 1..Len(kw) : ConstrainedField(kw, kw[i]) \notin AvailableFields

\* C16 as stated: a filter or exclude whose constraints all name unknown
\* fields, called on a query with a well-formed predicate, returns a query
\* whose predicate is well formed and selects the records the receiver's
\* predicate selects.
C16_AsStated ==
    (/\ nlast.op \in {"filter", "exclude"} /\ nlast.exc = "none"
     /\ AllUnknown(nlast.kw) /\ WellFormed(nlast.before.query)) =>
        /\ WellFormed(nlast.ret.query)
        /\ Selected(nlast.ret.query) = Selected(nlast.before.query)

\* kw is one equality constraint field=value on a field of the schema.
OneEquality(kw) ==
    Len(kw) = 1 /\ kw[1].field \in AvailableFields /\ kw[1].sep = "" /\ kw[1].oper = ""

\* The chain was objects.filter(a=x).filter(b=y), a and b different fields
\* of the schema.
TwoFilters ==
    /\ Len(nsteps) = 2
    /\ \A i \in 1..2 : nsteps[i].op = "filter" /\ OneEquality(nsteps[i].kw)
    /\ nsteps[1].kw[1].field # nsteps[2].kw[1].field

\* C17: the predicate of objects.filter(a=x).filter(b=y) and the predicate
\* of objects.filter(a=x, b=y) are well formed and select the same records,
\* those whose field a is x and whose field b is y.
C17_ChainedFilterIsConjunction ==
    TwoFilters =>
        LET a == nsteps[1].kw[1]
            b == nsteps[2].kw[1]
            joint == filter(Objects, nsteps[1].kw \o nsteps[2].kw)
            both == {id \in AllIds : Record(id)[a.field] = a.val[1] /\ Record(id)[b.field] = b.val[1]}
        IN  /\ nlast.exc = "none" /\ joint.exc = "none"
            /\ WellFormed(nq.query) /\ WellFormed(joint.qs.query)
            /\ Selected(nq.query) = both
            /\ Selected(joint.qs.query) = both

\* objects.filter(name='a').filter(id='r1') selects r1 alone, though two
\* records have the name 'a'.
C17_Witness ==
    /\ TwoFilters
    /\ nsteps[1].kw = <<Kw("name", "", "", <<"a">>)>>
    /\ nsteps[2].kw = <<Kw("id", "", "", <<"r1">>)>>
    /\ Selected(nq.query) = {"r1"}
    /\ Len(nq.query) > Len(filter(Objects, nsteps[1].kw \o nsteps[2].kw).qs.query)

\* What a lazy fetch stores for a field: the value of the record the remote
\* answered, unescaped, and '' when there is no record or no value.
Fetched(answer, name) ==
    IF answer.list = <<>> THEN ""
    ELSE IF answer.list[1][name] = "" THEN ""
    ELSE HtmlUnescape(answer.list[1][name])

\* The one lookup a read makes: get_entry_list for the entry's id and the
\* names asked for that the entry does not know.
Lookup(e, names) ==
    RemoteCall("get_entry_list", e.fields["id"], names \ DOMAIN e.fields, NoFields)

\* C18: on an entry with a schema, whatever the remote answers, reading a
\* known field sends nothing and changes nothing; reading a schema field the
\* entry does not know sends one get_entry_list for the entry's id and that
\* field alone and, when it returns, has stored and returns the remote's
\* value, '' if there is none; reading a tuple sends one get_entry_list for
\* the names of the tuple the entry does not know, and nothing if it knows
\* them all.  The read the entry did last was of this kind.
C18_LazyFetch ==
    eState = "ok" =>
        /\ \A name \in AvailableFields : \A answer \in ListAnswers(fields["id"]) :
             LET r == getitem(Entry, name, answer)
             IN  IF name \in DOMAIN fields
                 THEN r = Done(Entry, "none", <<fields[name]>>, <<>>)
                 ELSE /\ r.calls = <<Lookup(Entry, {name})>>
                      /\ r.exc = "none" <=> answer.kind = "list"
                      /\ r.exc = "none" =>
                            /\ r.ret = <<Fetched(answer, name)>>
                            /\ r.e.fields = Put(fields, name, Fetched(answer, name))
        /\ \A names \in Tuples : \A answer \in ListAnswers(fields["id"]) :
             LET r == gettuple(Entry, names, answer, {})
             IN  IF Range(names) \subseteq DOMAIN fields
                 THEN r.calls = <<>> /\ r.e = Entry
                 ELSE r.calls = <<Lookup(Entry, Range(names))>>
        /\ (last.op = "getitem" /\ last.name \in AvailableFields) =>
             IF last.known
             THEN last.calls = <<>> /\ ~last.changed /\ last.exc = "none"
                    /\ last.ret = <<fields[last.name]>>
             ELSE /\ Len(last.calls) = 1
                  /\ last.calls[1] =
                        RemoteCall("get_entry_list", last.idBefore, {last.name}, NoFields)
                  /\ last.exc = "none" => last.ret = <<fields[last.name]>>

\* entry['name'] on an entry the remote holds no name for: one lookup for
\* 'name' under the entry's id r1, and '' stored and returned.
C18_Witness ==
    /\ eState = "ok" /\ last.op = "getitem" /\ last.name = "name" /\ ~last.known
    /\ last.idBefore = "r1"
    /\ last.calls = <<RemoteCall("get_entry_list", "r1", {"name"}, NoFields)>>
    /\ last.exc = "none" /\ last.ret = <<"">> /\ fields["name"] = ""

\* C19 as stated: the name-value list save() hands to set_entry has no item
\* named 'id' when the entry's id is empty, and an item 'id' carrying the
\* entry's id when it is not.
C19_AsStated ==
    (last.op = "save" /\ last.calls # <<>>) =>
        LET nvl == last.calls[1].nvl
        IN  /\ last.calls[1].m = "set_entry"
            /\ last.idBefore = "" => "id" \notin DOMAIN nvl
            /\ last.idBefore # "" => ("id" \in DOMAIN nvl /\ nvl["id"] = last.idBefore)

\* C20: delete() on an entry with a schema sends exactly one set_entry, whose
\* name-value list carries deleted = 1, and no other request that changes
\* the remote.  For an entry with an id the list carries that id, nothing
\* else is sent and, when set_entry returns, the entry's flag is set.  For an
\* entry without id the save is a create: the list carries no id but the
\* empty one, and one get_entry_list may follow to fetch the new record.
\* On an entry without schema delete() raises before it sends anything.
C20_DeleteIsFlagAndSave ==
    last.op = "delete" =>
        IF eState # "ok" THEN last.calls = <<>> /\ last.exc = "AttributeError"
        ELSE LET nvl == last.calls[1].nvl
             IN  /\ Len(last.calls) \in {1, 2}
                 /\ last.calls[1].m = "set_entry"
                 /\ "deleted" \in DOMAIN nvl /\ nvl["deleted"] = "1"
                 /\ \A i \in 2..Len(last.calls) : last.calls[i].m = "get_entry_list"
                 /\ last.idBefore # "" =>
                        /\ Len(last.calls) = 1
                        /\ "id" \in DOMAIN nvl /\ nvl["id"] = last.idBefore
                        /\ last.exc = "none" => fields["deleted"] = "1"
                 /\ last.idBefore = "" => ("id" \in DOMAIN nvl => nvl["id"] = "")

\* delete() on the entry r1 whose name was assigned before: one set_entry
\* with the name, the flag and the id.
C20_Witness ==
    /\ last.op = "delete" /\ last.exc = "none" /\ last.idBefore = "r1"
    /\ last.calls = <<RemoteCall("set_entry", "", {},
                                 [f \in {"name", "deleted", "id"} |->
                                     IF f = "id" THEN "r1" ELSE IF f = "name" THEN "a" ELSE "1"])>>
    /\ fields["deleted"] = "1" /\ dirty = <<>>

\* C20 as stated: the set_entry request of delete() carries the deleted flag
\* together with the id of the entry.
C20_AsStated ==
    (last.op = "delete" /\ last.calls # <<>>) =>
        LET nvl == last.calls[1].nvl
        IN  /\ "deleted" \in DOMAIN nvl /\ nvl["deleted"] = "1"
            /\ "id" \in DOMAIN nvl /\ nvl["id"] = last.idBefore

\* The window a QueryList asks the remote for: from its offset on ('' is
\* the first record), limit records (None and '' are all of them).
WindowLow(q) == IF q.offset < 0 THEN 0 ELSE q.offset
WindowBounded(q) == q.limit >= 0
WindowHigh(q) == WindowLow(q) + q.limit

\* The window of a lies within the window of b.
Within(a, b) ==
    /\ WindowLow(a) >= WindowLow(b)
    /\ WindowBounded(b) => (WindowBounded(a) /\ WindowHigh(a) <= WindowHigh(b))

\* C21 as stated: after a set_limits call with non-negative arguments the
\* window sent to the remote lies within the window in force before it.
C21_AsStated == wlast.op = "set_limits" => Within(wq, wlast.before)

\* C22: a count() that finds no stored total sends one get_entries_count
\* request for the instance's predicate and, when the request returns,
\* stores the total and returns it; a count() that finds a stored total
\* returns it and sends nothing; set_limits leaves the total alone.  So the
\* requests sent are one for each count() that failed and one for the first
\* that returned: exactly one if the first count() returned.
C22_CountCached ==
    /\ wstats.requests = IF wstats.returned = 0 THEN wstats.counts
                         ELSE wstats.counts - wstats.returned + 1
    /\ (wq.total # 0 - 1) <=> (wstats.returned >= 1)
    /\ wlast.op = "set_limits" => wq.total = wlast.before.total
    /\ wlast.op = "count" =>
         IF wlast.before.total # 0 - 1
         THEN /\ wlast.calls = <<>> /\ wlast.exc = "none"
              /\ wlast.n = wlast.before.total /\ wq = wlast.before
         ELSE /\ wlast.calls = <<CountCall(wlast.before)>>
              /\ wlast.exc = "none" =>
                    (wq.total = wlast.n /\ wlast.n = Cardinality(Selected(wq.query)))
              /\ wlast.exc # "none" => wq = wlast.before

\* Three count() calls that returned the total 3, and one request.
C22_Witness ==
    /\ wstats.counts = 3 /\ wstats.returned = 3 /\ wstats.requests = 1
    /\ wlast.op = "count" /\ wlast.n = 3 /\ wlast.calls = <<>>

\* C22 as stated: whatever number of count() calls was made on the
\* instance, one request was sent.
C22_AsStated == wstats.counts >= 1 => wstats.requests = 1

\* The ordering the remote is to be given for an order_by argument that
\* names a field of the schema.
Ordering(value) ==
    CASE value.name = "name" /\ ~value.desc -> "name"
      [] value.name = "name" /\ value.desc -> "name desc"
      [] value.name \in {"id", "pk"} /\ ~value.desc -> "id"
      [] value.name \in {"id", "pk"} /\ value.desc -> "id desc"
      [] value.name = "deleted" /\ ~value.desc -> "deleted"
      [] OTHER -> "deleted desc"

\* C23: order_by returns a query that differs from the receiver in its
\* ordering at most; the ordering is the field named, 'id' for 'pk', with
\* ' desc' after it when the argument starts with '-', and the receiver's
\* ordering when the name is not in the schema.
C23_OrderBy ==
    nlast.op = "order_by" =>
        /\ nlast.exc = "none"
        /\ nlast.ret = [nlast.before EXCEPT !.order_by = nlast.ret.order_by]
        /\ nlast.ret.order_by =
              IF nlast.value.name \in AvailableFields \cup {"pk"}
              THEN Ordering(nlast.value) ELSE nlast.before.order_by

\* objects.order_by('-pk').order_by('-bogus'): the ordering stays 'id desc'.
C23_Witness ==
    /\ nlast.op = "order_by" /\ nlast.value = OrderValue(TRUE, UnknownField)
    /\ nlast.before.order_by = "id desc" /\ nlast.ret.order_by = "id desc"
    /\ nsteps[1].op = "order_by"

\* C24: among proxies that have a schema, the number hash() returns for a
\* (module name, id) pair is the same every time and is the one that stays
\* in _hashes; two pairs that differ in the module name alone or in the id
\* alone have different numbers; two pairs that differ in both have the
\* same number only if '<module>-<id>' is the same string for both, as for
\* ('Tasks-x', 'r1') and ('Tasks', 'x-r1').
C24_HashOfPair ==
    /\ \A a, b \in hseen :
         /\ (a.module = b.module /\ a.id = b.id) => a.h = b.h
         /\ (a.module = b.module /\ a.id # b.id) => a.h # b.h
         /\ (a.module # b.module /\ a.id = b.id) => a.h # b.h
         /\ (a.h = b.h /\ a.module # b.module) =>
                {<<a.module, a.id>>, <<b.module, b.id>>}
                    = {<<"Tasks-x", "r1">>, <<"Tasks", "x-r1">>}
    /\ \A a \in hseen : hashes[HashKey(a.module, a.id)] = a.h /\ a.h \in 1..hcount

\* The proxy ('Tasks', 'r1') was hashed first; later ('Tasks', 'x-r1') got
\* a number of its own and ('Tasks-x', 'r1') was given that same number.
C24_Witness ==
    /\ [module |-> "Tasks", id |-> "r1", h |-> 1] \in hseen
    /\ [module |-> "Tasks", id |-> "x-r1", h |-> 2] \in hseen
    /\ hlast = [module |-> "Tasks-x", id |-> "r1", exc |-> "none", ret |-> 2]
    /\ hcount = 2

\* C24 as stated: two proxies have the same hash exactly when they have
\* the same (module name, id) pair.
C24_AsStated ==
    \A a, b \in hseen : (a.module = b.module /\ a.id = b.id) <=> a.h = b.h

\* C25 as stated: a read of the entry, whatever it fetches, adds no field to
\* the dirty list.
C25_AsStated ==
    [][last'.op \in {"getitem", "gettuple"} => Range(dirty') \subseteq Range(dirty)]_vars

\* The request of an index or a slice asked for this offset and this limit.
Asked(offset, limit) ==
    /\ Len(qlast.calls) = 1
    /\ qlast.calls[1].offset = offset /\ qlast.calls[1].limit = limit

\* Indexing and slicing an instance without cache, q[:0] left aside: q[k]
\* asks for offset k and limit 1, q[a:b] with a < b for offset a and limit
\* b - a, q[a:] for offset a and no limit, q[:b] with b > 0 for offset 0 and
\* limit b.  With a cache nothing is sent and the cached list is indexed.
C26_ButEmptySlice ==
    /\ (qlast.op = "index" /\ qlast.k >= 0) =>
          IF qlast.cachedBefore
          THEN /\ qlast.calls = <<>>
               /\ qlast.exc = "none" => qlast.ret = <<qs.cache[qlast.k + 1]>>
          ELSE Asked(qlast.k, 1)
    /\ qlast.op = "slice" =>
          IF qlast.cachedBefore
          THEN qlast.calls = <<>> /\ qlast.ret = PySlice(qs.cache, qlast.k, qlast.stop)
          ELSE /\ (qlast.k >= 0 /\ qlast.stop >= 0 /\ qlast.k < qlast.stop) =>
                     Asked(qlast.k, qlast.stop - qlast.k)
               /\ (qlast.k >= 0 /\ qlast.stop = NoneMark) => Asked(qlast.k, NoneMark)
               /\ (qlast.k = NoneMark /\ qlast.stop > 0) => Asked(0, qlast.stop)

\* C26 as stated: the above, and q[:b] on an instance without cache asks for
\* offset 0 and limit b for every b, 0 included.
C26_AsStated ==
    /\ C26_ButEmptySlice
    /\ (qlast.op = "slice" /\ ~qlast.cachedBefore /\ qlast.k = NoneMark /\ qlast.stop >= 0) =>
          Asked(0, qlast.stop)

(***************************************************************************)
(* Two threads use one connection: nothing in Sugarcrm serializes          *)
(* _method_call, so its steps interleave freely.  MaxCalls bounds the      *)
(* invocations of the two threads together, and the server answers a       *)
(* request of a method with a result or with the invalid-session fault     *)
(* (its other answers are those of SpecCall).                              *)
(***************************************************************************)
NextCall2 ==
    /\ ThreadStep(1) \/ ThreadStep(2) \/ Expire
    /\ ncalls'[1] + ncalls'[2] <= MaxCalls
    /\ LET answers == {FaultBody(InvalidSessionNumber)} \cup {ResultBody(v) : v \in Values}
       IN  \A t \in AllThreads :
               /\ body1'[t] \in {NoneBody} \cup answers
               /\ resp2'[t] \in {NoOutcome} \cup {SendRequest(x) : x \in answers}

SpecCall2 == Init /\ [][NextCall2]_vars

\* C28 (mechanism): the token a re-login returned is stored whatever the
\* connection holds at that moment, and the repeated request carries what the
\* connection holds when it is sent, not what this thread's login returned.
C28_UnguardedStore ==
    [][\A t \in AllThreads :
          /\ (pc[t] = "assign" /\ pc'[t] = "req2") => session' = tok[t]
          /\ (pc[t] = "req2" /\ pc'[t] = "done") =>
                sent'[t][Len(sent'[t])].data[1] = session]_vars

\* C28 (the interleaving): thread t re-logged in and holds the most recently
\* issued token, still valid; thread u, whose re-login returned an older
\* token, stored it after t stored its own; the connection holds u's token and
\* t's repeated request went out with it.
C28_Witness ==
    \E t, u \in AllThreads :
        /\ t # u /\ logins[t] = 1 /\ logins[u] = 1
        /\ tok[t] = issued /\ tok[t] \in valid
        /\ tok[u] # 0 /\ tok[u] < tok[t] /\ session = tok[u]
        /\ pc[t] = "done" /\ Len(sent[t]) = 2 /\ sent[t][2].data[1] = tok[u]

\* C27 as stated: after any constructions, connection[module] lookups and
\* evaluations, at most one get_module_fields request was sent for a module.
C27_AsStated == \A module \in DOMAIN sch.requests : sch.requests[module] <= 1

\* C29 as stated: get(**kwargs) on a QueryList that carries a predicate
\* returns only a record that satisfies that predicate, and answers
\* MultipleObjectsReturned only when two or more records satisfy both the
\* predicate and the keyword constraints.
C29_AsStated ==
    (qlast.op = "get" /\ qs.query # <<>> /\ WellFormed(qs.query)) =>
        /\ qlast.exc = "none" => Range(qlast.ret) \subseteq Selected(qs.query)
        /\ qlast.exc = "MultipleObjectsReturned" =>
              Cardinality(Selected(qs.query) \cap Selected(build_query(qlast.kw).q)) >= 2

\* C30 as stated: on an instance without cache q[a:b] with a and b given
\* returns at most max(0, b - a) entries, and for a >= b no request without
\* limit is sent.
C30_AsStated ==
    (qlast.op = "slice" /\ ~qlast.cachedBefore /\ qlast.k >= 0 /\ qlast.stop >= 0) =>
        /\ qlast.exc = "none" =>
              Len(qlast.ret) <= (IF qlast.stop > qlast.k THEN qlast.stop - qlast.k ELSE 0)
        /\ qlast.k >= qlast.stop =>
              \A i \in 1..Len(qlast.calls) : qlast.calls[i].limit # NoneMark

====
